---- MODULE Spec2Model ----
(***************************************************************************)
(* Model of the Sozin WiFi scanner (src/src/scanner.rs) and of its         *)
(* interface enumeration (src/src/network.rs).                             *)
(*                                                                         *)
(* Text is modelled as token sequences: a line of `iw dev <if> scan`       *)
(* output is a sequence of string tokens, a scan text is a sequence of     *)
(* lines.  Whitespace is the tokens " " and "\t".  Prefix tests look at    *)
(* the first token of the trimmed line, substring tests look inside every  *)
(* token (Substrings), integer parsing reads a single numeral token.       *)
(*                                                                         *)
(* Option<T> is modelled as a sequence: None is <<>>, Some(x) is <<x>>.    *)
(* WifiNetwork.last_seen (the wall clock at build time) is not modelled:   *)
(* no operation of the scanner reads it.                                   *)
(***************************************************************************)
EXTENDS Integers, Sequences, FiniteSets, TLC

VARIABLES
    self_networks,    \* WifiScanner.networks: the cache, BSSID -> WifiNetwork
    pc,               \* "idle", or "parsing" inside parse_scan_results
    output,           \* the lines of the scan text the current/last scan has parsed
    networks,         \* parse_scan_results' local Vec, in push order (before the sort)
    current_network,  \* parse_scan_results' local Option<WifiNetworkBuilder>
    ret,              \* what the last call on the scanner returned
    seen,             \* history: BSSIDs of marker lines parsed since new / clear_cache
    scan_result,      \* scan's local: how the last `iw dev <if> scan` ended
    call,             \* the last call of a free function: its argument and result
    net_fn,           \* the enumeration called last: get_interfaces or
                      \* get_wireless_interfaces
    net_pc,           \* "idle", or "listing" inside get_interfaces' loop
    listing,          \* get_interfaces' local: how the last `ip -o link show` ended
    stdout,           \* the lines of the link listing get_interfaces has read
    parsed,           \* history: what parse_interface_line returned for each line
    lookups,          \* history: the lookups made for each line, with their outcomes
    interfaces,       \* get_interfaces' local Vec, in push order
    net_ret,          \* what the last get_interfaces returned
    run_pc,           \* ContinuousScanner::run: "none" before the call, "scan" at
                      \* the scan of an iteration, "sleep" at its sleep
    iterations,       \* history: the iterations of run's loop that finished
    callbacks,        \* history: the calls of run's callback, and the last argument
    reported,         \* history: the errors run printed, and the last one
    app,              \* the App of the TUI
    ui_pc,            \* "new" before App::new, "loop" in run_app's loop, "exited"
    handled           \* history: what the last key handler did

scannerVars ==
    <<self_networks, pc, output, networks, current_network, ret, seen, scan_result>>

netVars == <<net_fn, net_pc, listing, stdout, parsed, lookups, interfaces, net_ret>>

runVars == <<run_pc, iterations, callbacks, reported>>

uiVars == <<app, ui_pc, handled>>

\* The state outside the scanner.
otherVars == <<call, netVars, runVars, uiVars>>

vars == <<scannerVars, otherVars>>

\* Longest scan text, in lines.
MaxLines == 4

\* Longest link listing, in lines.
MaxLinks == 2

\* Longest device-info text, in lines.
MaxInfo == 3

None == <<>>
Some(x) == <<x>>
unwrap_or(o, d) == IF o = None THEN d ELSE o[1]

(***************************************************************************)
(* str helpers, on token sequences                                         *)
(***************************************************************************)
Whitespace == {" ", "\t", "\n"}

RECURSIVE trim_start(_)
trim_start(s) ==
    IF s # <<>> /\ Head(s) \in Whitespace THEN trim_start(Tail(s)) ELSE s

RECURSIVE trim_end(_)
trim_end(s) ==
    IF s # <<>> /\ s[Len(s)] \in Whitespace
    THEN trim_end(SubSeq(s, 1, Len(s) - 1))
    ELSE s

trim(s) == trim_end(trim_start(s))

starts_with(s, prefix) == s # <<>> /\ Head(s) = prefix

strip_prefix(s, prefix) == IF starts_with(s, prefix) THEN Some(Tail(s)) ELSE None

\* The search patterns of the program that occur inside a token.
Substrings(tok) ==
    CASE tok = "WPA3" -> {"WPA3", "WPA"}
      [] tok = "MyAP" -> {"MyAP", "AP"}
      [] tok = "WPA2" -> {"WPA2", "WPA"}
      [] tok = "RSN:" -> {"RSN:", "RSN"}
      [] tok = "WPA:" -> {"WPA:", "WPA"}
      [] OTHER -> {tok}

contains(s, pat) == \E i \in 1..Len(s) : pat \in Substrings(s[i])

RECURSIVE to_string(_)
to_string(s) == IF s = <<>> THEN "" ELSE Head(s) \o to_string(Tail(s))

\* s.split(sep): the pieces of s between the tokens equal to sep.
RECURSIVE split(_, _)
split(s, sep) ==
    IF \A i \in 1..Len(s) : s[i] # sep
    THEN <<s>>
    ELSE LET i == CHOOSE k \in 1..Len(s) :
                      s[k] = sep /\ \A j \in 1..(k - 1) : s[j] # sep
         IN  <<SubSeq(s, 1, i - 1)>> \o split(SubSeq(s, i + 1, Len(s)), sep)

nth(pieces, n) == IF n + 1 <= Len(pieces) THEN Some(pieces[n + 1]) ELSE None

\* s.split_whitespace().next()
split_whitespace_next(s) ==
    LET t == trim_start(s) IN IF t = <<>> THEN None ELSE Some(<<Head(t)>>)

\* The decimal numerals of the modelled texts and their values.
Numerals ==
    ("0" :> 0) @@ ("6" :> 6) @@ ("11" :> 11) @@ ("2412" :> 2412) @@
    ("2462" :> 2462) @@ ("5180" :> 5180) @@ ("2400" :> 2400) @@
    ("-40" :> -40) @@ ("-80" :> -80)

\* str::parse::<i32>: the text must be exactly one numeral.
parse_i32(s) ==
    IF Len(s) = 1 /\ s[1] \in DOMAIN Numerals THEN Some(Numerals[s[1]]) ELSE None

\* str::parse::<u32>: as parse_i32, and a negative numeral is an error.
parse_u32(s) ==
    IF Len(s) = 1 /\ s[1] \in DOMAIN Numerals /\ Numerals[s[1]] >= 0
    THEN Some(Numerals[s[1]])
    ELSE None

(***************************************************************************)
(* WifiScanner::freq_to_channel                                            *)
(***************************************************************************)
FreqTable ==
    (2412 :> 1) @@ (2417 :> 2) @@ (2422 :> 3) @@ (2427 :> 4) @@ (2432 :> 5) @@
    (2437 :> 6) @@ (2442 :> 7) @@ (2447 :> 8) @@ (2452 :> 9) @@ (2457 :> 10) @@
    (2462 :> 11) @@ (2467 :> 12) @@ (2472 :> 13) @@ (2484 :> 14) @@
    (5180 :> 36) @@ (5200 :> 40) @@ (5220 :> 44) @@ (5240 :> 48) @@
    (5260 :> 52) @@ (5280 :> 56) @@ (5300 :> 60) @@ (5320 :> 64) @@
    (5500 :> 100) @@ (5520 :> 104) @@ (5540 :> 108) @@ (5560 :> 112) @@
    (5580 :> 116) @@ (5600 :> 120) @@ (5620 :> 124) @@ (5640 :> 128) @@
    (5660 :> 132) @@ (5680 :> 136) @@ (5700 :> 140) @@ (5720 :> 144) @@
    (5745 :> 149) @@ (5765 :> 153) @@ (5785 :> 157) @@ (5805 :> 161) @@
    (5825 :> 165)

\* A table without the entry of channel 144.
freq_to_channel_without_144(freq) ==
    IF freq \in DOMAIN FreqTable /\ freq # 5720 THEN Some(FreqTable[freq]) ELSE None

\* A conversion that computes 2.4 GHz channels instead of looking them up.
freq_to_channel_computed(freq) ==
    IF freq >= 2412 /\ freq <= 2484 THEN Some((freq - 2407) \div 5)
    ELSE IF freq \in DOMAIN FreqTable THEN Some(FreqTable[freq])
    ELSE None

freq_to_channel(freq) ==
    IF freq \in DOMAIN FreqTable THEN Some(FreqTable[freq]) ELSE None

(***************************************************************************)
(* WifiNetworkBuilder                                                      *)
(***************************************************************************)
WifiNetworkBuilder_new(bssid) ==
    [bssid |-> bssid, ssid |-> None, channel |-> None, frequency |-> None,
     signal_strength |-> None, security |-> "Open"]

\* An inference whose plain RSN branch moves WPA3 on instead of keeping it.
update_security_moves_wpa3(security, line) ==
    IF contains(line, "WPA3") THEN "WPA3"
    ELSE IF contains(line, "RSN") \/ contains(line, "WPA2") THEN
        IF contains(line, "802.1X") \/ contains(line, "EAP") THEN "WPA2Enterprise"
        ELSE IF security # "WPA3" THEN "WPA2"
        ELSE "WPA2Enterprise"
    ELSE IF contains(line, "WPA") /\ security = "Open" THEN "WPA"
    ELSE IF contains(line, "WEP") /\ security = "Open" THEN "WEP"
    ELSE security

update_security(security, line) ==
    IF contains(line, "WPA3") THEN "WPA3"
    ELSE IF contains(line, "RSN") \/ contains(line, "WPA2") THEN
        IF contains(line, "802.1X") \/ contains(line, "EAP") THEN "WPA2Enterprise"
        ELSE IF security # "WPA3" THEN "WPA2"
        ELSE security
    ELSE IF contains(line, "WPA") /\ security = "Open" THEN "WPA"
    ELSE IF contains(line, "WEP") /\ security = "Open" THEN "WEP"
    ELSE security

\* A build whose missing signal becomes 0.
build_zero_signal(builder) ==
    Some([ssid |-> unwrap_or(builder.ssid, "<hidden>"),
          bssid |-> builder.bssid,
          channel |-> unwrap_or(builder.channel, 0),
          frequency |-> unwrap_or(builder.frequency, 0),
          signal_strength |-> unwrap_or(builder.signal_strength, 0),
          security |-> builder.security,
          mode |-> "Infrastructure"])

build(builder) ==
    Some([ssid |-> unwrap_or(builder.ssid, "<hidden>"),
          bssid |-> builder.bssid,
          channel |-> unwrap_or(builder.channel, 0),
          frequency |-> unwrap_or(builder.frequency, 0),
          signal_strength |-> unwrap_or(builder.signal_strength, -100),
          security |-> builder.security,
          mode |-> "Infrastructure"])

(***************************************************************************)
(* WifiScanner::parse_scan_results, one line of the loop at a time         *)
(***************************************************************************)
\* The BSSID of a marker line: the text between "BSS " and the first '('.
marker_bssid(line) ==
    LET rest == strip_prefix(line, "BSS ")
    IN  IF rest = None THEN ""
        ELSE to_string(trim(split(rest[1], "(")[1]))

\* Field branches that test for a security marker first.
update_builder_security_first(builder, line) ==
    IF contains(line, "WPA") \/ contains(line, "RSN") \/ contains(line, "WEP") THEN
        [builder EXCEPT !.security = update_security(builder.security, line)]
    ELSE IF starts_with(line, "SSID:") THEN
        [builder EXCEPT !.ssid = Some(to_string(trim(Tail(line))))]
    ELSE IF starts_with(line, "freq:") THEN
        LET frequency == parse_u32(trim(Tail(line)))
        IN  [builder EXCEPT !.frequency = frequency,
                            !.channel = freq_to_channel(unwrap_or(frequency, 0))]
    ELSE IF starts_with(line, "signal:") THEN
        LET signal_str == unwrap_or(split_whitespace_next(trim(Tail(line))), <<"0">>)
        IN  [builder EXCEPT !.signal_strength = parse_i32(signal_str)]
    ELSE IF starts_with(line, "DS Parameter set:") THEN
        LET ch_str == nth(split(line, "channel"), 1)
        IN  IF ch_str = None THEN builder
            ELSE [builder EXCEPT !.channel = parse_u32(trim(ch_str[1]))]
    ELSE builder

\* The field branches of the loop body, applied to the active builder.
update_builder(builder, line) ==
    IF starts_with(line, "SSID:") THEN
        [builder EXCEPT !.ssid = Some(to_string(trim(Tail(line))))]
    ELSE IF starts_with(line, "freq:") THEN
        LET frequency == parse_u32(trim(Tail(line)))
        IN  [builder EXCEPT !.frequency = frequency,
                            !.channel = freq_to_channel(unwrap_or(frequency, 0))]
    ELSE IF starts_with(line, "signal:") THEN
        LET signal_str == unwrap_or(split_whitespace_next(trim(Tail(line))), <<"0">>)
        IN  [builder EXCEPT !.signal_strength = parse_i32(signal_str)]
    ELSE IF contains(line, "WPA") \/ contains(line, "RSN") \/ contains(line, "WEP") THEN
        [builder EXCEPT !.security = update_security(builder.security, line)]
    ELSE IF starts_with(line, "DS Parameter set:") THEN
        LET ch_str == nth(split(line, "channel"), 1)
        IN  IF ch_str = None THEN builder
            ELSE [builder EXCEPT !.channel = parse_u32(trim(ch_str[1]))]
    ELSE builder

\* An insert that keeps the entry a BSSID already has.
cache_insert_if_absent(cache, network) ==
    [b \in (DOMAIN cache) \cup {network.bssid} |->
        IF b \in DOMAIN cache THEN cache[b] ELSE network]

\* An insert into a cache that was emptied first.
cache_insert_alone(cache, network) ==
    [b \in {network.bssid} |-> network]

\* self.networks.insert(network.bssid.clone(), network.clone())
cache_insert(cache, network) ==
    [b \in (DOMAIN cache) \cup {network.bssid} |->
        IF b = network.bssid THEN network ELSE cache[b]]

\* A comparator that sorts weakest first.
sort_cmp_ascending(a, b) == a.signal_strength > b.signal_strength

\* The comparator of the final sort: b.signal_strength.cmp(&a.signal_strength)
\* is Greater, i.e. a has to come after b.
sort_cmp_greater(a, b) == b.signal_strength > a.signal_strength

\* Vec::sort_by is a stable sort: an element is placed after every element
\* that does not compare Greater than it.
\* An insertion that places an element before the elements equal to it.
RECURSIVE sort_insert_unstable(_, _)
sort_insert_unstable(sorted, x) ==
    IF sorted = <<>> THEN <<x>>
    ELSE IF Head(sorted).signal_strength <= x.signal_strength THEN <<x>> \o sorted
    ELSE <<Head(sorted)>> \o sort_insert_unstable(Tail(sorted), x)

RECURSIVE sort_insert(_, _)
sort_insert(sorted, x) ==
    IF sorted = <<>> THEN <<x>>
    ELSE IF sort_cmp_greater(Head(sorted), x) THEN <<x>> \o sorted
    ELSE <<Head(sorted)>> \o sort_insert(Tail(sorted), x)

RECURSIVE sort_by(_)
sort_by(v) ==
    IF v = <<>> THEN <<>>
    ELSE sort_insert(sort_by(SubSeq(v, 1, Len(v) - 1)), v[Len(v)])

\* "if let Some(builder) ... if let Some(network) = builder.build()": the
\* finished builder goes into the cache and onto the end of the local Vec.
push_built(cache, nets, cur) ==
    IF cur = None THEN [cache |-> cache, networks |-> nets]
    ELSE LET network == build(cur[1])
         IN  IF network = None THEN [cache |-> cache, networks |-> nets]
             ELSE [cache |-> cache_insert(cache, network[1]),
                   networks |-> Append(nets, network[1])]

\* "Save previous network if exists", at a marker line.
save_previous(cache, nets, cur) == push_built(cache, nets, cur)

\* A parser that drops the builder still open at the end of the input.
save_last_dropped(cache, nets, cur) == [cache |-> cache, networks |-> nets]

\* "Don't forget the last network", after the loop.
save_last(cache, nets, cur) == push_built(cache, nets, cur)

(***************************************************************************)
(* signal_to_quality, signal_to_bars                                       *)
(***************************************************************************)
\* "as u8" on an i32: the low eight bits.
as_u8(x) == x % 256

\* A quality that is not doubled.
signal_to_quality_unscaled(signal_dbm) ==
    IF signal_dbm >= -50 THEN 100
    ELSE IF signal_dbm <= -100 THEN 0
    ELSE as_u8(signal_dbm + 100)

signal_to_quality(signal_dbm) ==
    IF signal_dbm >= -50 THEN 100
    ELSE IF signal_dbm <= -100 THEN 0
    ELSE as_u8(2 * (signal_dbm + 100))

\* The bar glyphs, cell by cell: "full" is the block U+2588, "empty" the
\* light shade U+2591.
Bars(filled) == [i \in 1..4 |-> IF i <= filled THEN "full" ELSE "empty"]

\* Bars whose top band starts one point late.
signal_to_bars_late_band(signal_dbm) ==
    LET quality == signal_to_quality(signal_dbm)
    IN  IF quality >= 81 /\ quality <= 100 THEN Bars(4)
        ELSE IF quality >= 60 /\ quality <= 80 THEN Bars(3)
        ELSE IF quality >= 40 /\ quality <= 59 THEN Bars(2)
        ELSE IF quality >= 20 /\ quality <= 39 THEN Bars(1)
        ELSE Bars(0)

signal_to_bars(signal_dbm) ==
    LET quality == signal_to_quality(signal_dbm)
    IN  IF quality >= 80 /\ quality <= 100 THEN Bars(4)
        ELSE IF quality >= 60 /\ quality <= 79 THEN Bars(3)
        ELSE IF quality >= 40 /\ quality <= 59 THEN Bars(2)
        ELSE IF quality >= 20 /\ quality <= 39 THEN Bars(1)
        ELSE Bars(0)

\* The frequencies the conversion is applied to: 0 to past the 5 GHz band,
\* and the largest number the checker can hold.
FreqInputs == (0..6000) \cup {2147483647}

\* The signal strengths the free functions are applied to: around the
\* linear range, and the ends of the numbers the checker can hold.
DbmInputs == ((-130)..(-20)) \cup {-2147483647, 2147483646}

(***************************************************************************)
(* NetworkManager (src/src/network.rs).  A link-listing line is a sequence *)
(* of tokens, finer than words: "eth0:" is the tokens "eth0" and ":", an   *)
(* address "10.0.0.5/24" the tokens "10.0.0.5", "/" and "24".  A pattern   *)
(* with a space in it, such as "state UP", is a sequence of tokens.        *)
(***************************************************************************)
\* s.split_whitespace().collect(): the runs of tokens between whitespace.
RECURSIVE split_whitespace(_)
split_whitespace(s) ==
    LET t == trim_start(s)
    IN  IF t = <<>> THEN <<>>
        ELSE LET n == IF \E k \in 1..Len(t) : t[k] \in Whitespace
                      THEN (CHOOSE k \in 1..Len(t) :
                                /\ t[k] \in Whitespace
                                /\ \A j \in 1..(k - 1) : t[j] \notin Whitespace) - 1
                      ELSE Len(t)
             IN  <<SubSeq(t, 1, n)>> \o split_whitespace(SubSeq(t, n + 1, Len(t)))

RECURSIVE trim_end_matches(_, _)
trim_end_matches(s, c) ==
    IF s # <<>> /\ s[Len(s)] = c
    THEN trim_end_matches(SubSeq(s, 1, Len(s) - 1), c)
    ELSE s

\* line.contains(pat) for a pattern of several tokens.
contains_seq(s, pat) ==
    \E i \in 1..(Len(s) - Len(pat) + 1) : SubSeq(s, i, i + Len(pat) - 1) = pat

StateUp == <<"state", " ", "UP">>
StateDown == <<"state", " ", "DOWN">>
Inet == <<"inet", " ">>

\* The name prefixes detect_interface_type looks for, per first token of a name.
Prefixes(tok) ==
    CASE tok = "wlan0" -> {"wl", "wlan"}
      [] tok = "wlp2s0" -> {"wl"}
      [] tok = "wifi0" -> {"wifi"}
      [] tok = "eth0" -> {"eth"}
      [] tok = "enp3s0" -> {"en"}
      [] tok = "veth1" -> {"veth"}
      [] tok = "docker0" -> {"docker"}
      [] tok = "br-lan" -> {"br-"}
      [] OTHER -> {}

name_starts_with(name, prefix) == name # <<>> /\ prefix \in Prefixes(Head(name))

\* A detection that tries the name patterns before the wireless marker.
detect_interface_type_names_first(name, wireless_exists) ==
    IF \/ name_starts_with(name, "wl")
       \/ name_starts_with(name, "wlan")
       \/ name_starts_with(name, "wifi") THEN "Wireless"
    ELSE IF name_starts_with(name, "eth") \/ name_starts_with(name, "en") THEN "Ethernet"
    ELSE IF \/ name_starts_with(name, "veth")
            \/ name_starts_with(name, "docker")
            \/ name_starts_with(name, "br-") THEN "Virtual"
    ELSE IF wireless_exists THEN "Wireless"
    ELSE "Unknown"

detect_interface_type(name, wireless_exists) ==
    IF wireless_exists THEN "Wireless"
    ELSE IF \/ name_starts_with(name, "wl")
            \/ name_starts_with(name, "wlan")
            \/ name_starts_with(name, "wifi") THEN "Wireless"
    ELSE IF name_starts_with(name, "eth") \/ name_starts_with(name, "en") THEN "Ethernet"
    ELSE IF \/ name_starts_with(name, "veth")
            \/ name_starts_with(name, "docker")
            \/ name_starts_with(name, "br-") THEN "Virtual"
    ELSE "Unknown"

\* read_to_string(address).ok().map(|s| s.trim().to_string())
get_mac_address(address) ==
    IF address = None THEN None ELSE Some(to_string(trim(address[1])))

\* The loop of get_ip_address over the lines of `ip -4 addr show <name>`.
RECURSIVE first_inet(_)
first_inet(lines) ==
    IF lines = <<>> THEN None
    ELSE LET parts == split_whitespace(Head(lines))
         IN  IF contains_seq(Head(lines), Inet) /\ Len(parts) >= 2
             THEN Some(to_string(split(parts[2], "/")[1]))
             ELSE first_inet(Tail(lines))

get_ip_address(addr_show) ==
    IF addr_show = None THEN None ELSE first_inet(addr_show[1])

\* Path::file_name: the last component, unless it is "..".
file_name(path) ==
    IF path = <<>> \/ path[Len(path)] = ".." THEN None ELSE Some(path[Len(path)])

\* read_link(driver).ok().and_then(|p| p.file_name()...)
get_driver(driver_link) ==
    IF driver_link = None THEN None ELSE file_name(driver_link[1])

\* A parser that looks for "state DOWN" first.
link_state_down_first(line) ==
    IF contains_seq(line, StateDown) THEN "Down"
    ELSE IF contains_seq(line, StateUp) THEN "Up"
    ELSE "Unknown"

link_state(line) ==
    IF contains_seq(line, StateUp) THEN "Up"
    ELSE IF contains_seq(line, StateDown) THEN "Down"
    ELSE "Unknown"

\* The lines of `iw dev <if> info`, in words.
InterfaceLine == <<"Interface", " ", "wlan0">>
TypeLine(type) == <<"\t", "type", " ", type>>
TypeTwoLine == <<"\t", "type", " ", "managed", " ", "monitor">>
SsidApLine == <<"\t", "ssid", " ", "MyAP">>

InfoLines ==
    {InterfaceLine, SsidApLine, TypeTwoLine} \cup
    {TypeLine(type) : type \in {"managed", "monitor", "AP", "master", "IBSS",
                                "ad-hoc", "P2P-client"}}

InfoTexts == UNION {[1..n -> InfoLines] : n \in 0..MaxInfo}

\* How `iw dev <if> info` can end: not spawned, or with a text on stdout
\* (the exit status is not looked at).
InfoOutcomes ==
    {[kind |-> "Io", stdout |-> <<>>]} \cup
    {[kind |-> "Output", stdout |-> text] : text \in InfoTexts}

text_contains(lines, pat) == \E i \in 1..Len(lines) : contains(lines[i], pat)

\* A mode taken from the keywords of the whole text.
wireless_mode_of_text(lines) ==
    IF text_contains(lines, "monitor") THEN "Monitor"
    ELSE IF text_contains(lines, "managed") THEN "Managed"
    ELSE IF text_contains(lines, "AP") \/ text_contains(lines, "master") THEN "Master"
    ELSE IF text_contains(lines, "IBSS") \/ text_contains(lines, "ad-hoc") THEN "Adhoc"
    ELSE "Unknown"

\* The loop of get_wireless_mode over the lines of stdout.
RECURSIVE wireless_mode_of(_)
wireless_mode_of(lines) ==
    IF lines = <<>> THEN "Unknown"
    ELSE LET line == Head(lines)
         IN  IF contains(line, "type") THEN
                 IF contains(line, "monitor") THEN "Monitor"
                 ELSE IF contains(line, "managed") THEN "Managed"
                 ELSE IF contains(line, "AP") \/ contains(line, "master") THEN "Master"
                 ELSE IF contains(line, "IBSS") \/ contains(line, "ad-hoc") THEN "Adhoc"
                 ELSE wireless_mode_of(Tail(lines))
             ELSE wireless_mode_of(Tail(lines))

get_wireless_mode(info) ==
    IF info.kind = "Io" THEN [tag |-> "Err", val |-> "io error"]
    ELSE [tag |-> "Ok", val |-> wireless_mode_of(info.stdout)]

(***************************************************************************)
(* enable_monitor_mode, disable_monitor_mode, rename_interface, spoof_mac  *)
(***************************************************************************)
\* How a command can end: not spawned, non-zero exit, zero exit.
CmdOutcomes == {[kind |-> "Io", success |-> FALSE],
                [kind |-> "Output", success |-> FALSE],
                [kind |-> "Output", success |-> TRUE]}

LinkOps == {"enable_monitor_mode", "disable_monitor_mode", "rename_interface", "spoof_mac"}

\* The argument vectors of the three commands of an operation.
link_down_cmd(interface) == <<"ip", "link", "set", interface, "down">>

change_cmd(op, interface, arg) ==
    CASE op = "enable_monitor_mode" -> <<"iw", "dev", interface, "set", "type", "monitor">>
      [] op = "disable_monitor_mode" -> <<"iw", "dev", interface, "set", "type", "managed">>
      [] op = "rename_interface" -> <<"ip", "link", "set", interface, "name", arg>>
      [] op = "spoof_mac" -> <<"ip", "link", "set", interface, "address", arg>>

link_up_cmd(op, interface, arg) ==
    <<"ip", "link", "set", IF op = "rename_interface" THEN arg ELSE interface, "up">>

change_error(op) ==
    CASE op = "enable_monitor_mode" -> "Failed to set monitor mode: "
      [] op = "disable_monitor_mode" -> "Failed to set managed mode: "
      [] op = "rename_interface" -> "Failed to rename interface: "
      [] op = "spoof_mac" -> "Failed to change MAC address: "

\* An operation that brings the link up again whatever the change did.
link_op_always_up(op, interface, arg, down, change, up) ==
    IF down.kind = "Io"
    THEN [issued |-> <<link_down_cmd(interface)>>, tag |-> "Err", val |-> "io error"]
    ELSE IF change.kind = "Io"
    THEN [issued |-> <<link_down_cmd(interface), change_cmd(op, interface, arg)>>,
          tag |-> "Err", val |-> "io error"]
    ELSE IF up.kind = "Io"
    THEN [issued |-> <<link_down_cmd(interface), change_cmd(op, interface, arg),
                       link_up_cmd(op, interface, arg)>>,
          tag |-> "Err", val |-> "io error"]
    ELSE [issued |-> <<link_down_cmd(interface), change_cmd(op, interface, arg),
                       link_up_cmd(op, interface, arg)>>,
          tag |-> IF change.success THEN "Ok" ELSE "Err",
          val |-> IF change.success THEN "" ELSE change_error(op)]

\* The body the four operations share; down, change and up are how the
\* three commands end when they are run.  issued is the commands run.
link_op(op, interface, arg, down, change, up) ==
    IF down.kind = "Io"
    THEN [issued |-> <<link_down_cmd(interface)>>, tag |-> "Err", val |-> "io error"]
    ELSE IF change.kind = "Io"
    THEN [issued |-> <<link_down_cmd(interface), change_cmd(op, interface, arg)>>,
          tag |-> "Err", val |-> "io error"]
    ELSE IF ~change.success
    THEN [issued |-> <<link_down_cmd(interface), change_cmd(op, interface, arg)>>,
          tag |-> "Err", val |-> change_error(op)]
    ELSE IF up.kind = "Io"
    THEN [issued |-> <<link_down_cmd(interface), change_cmd(op, interface, arg),
                       link_up_cmd(op, interface, arg)>>,
          tag |-> "Err", val |-> "io error"]
    ELSE [issued |-> <<link_down_cmd(interface), change_cmd(op, interface, arg),
                       link_up_cmd(op, interface, arg)>>,
          tag |-> "Ok", val |-> ""]

(***************************************************************************)
(* generate_random_mac                                                     *)
(***************************************************************************)
\* The bits of a byte, least significant first, and back.
bits(b) == [i \in 0..7 |-> (b \div (2 ^ i)) % 2]

RECURSIVE from_bits(_, _)
from_bits(v, i) == IF i > 7 THEN 0 ELSE v[i] * (2 ^ i) + from_bits(v, i + 1)

bit_and(a, b) == from_bits([i \in 0..7 |-> bits(a)[i] * bits(b)[i]], 0)

bit_or(a, b) ==
    from_bits([i \in 0..7 |-> IF bits(a)[i] + bits(b)[i] > 0 THEN 1 ELSE 0], 0)

HexDigits == <<"0", "1", "2", "3", "4", "5", "6", "7", "8", "9", "a", "b", "c", "d", "e", "f">>

\* format!("{:02x}", b)
hex02(b) == HexDigits[(b \div 16) + 1] \o HexDigits[(b % 16) + 1]

\* A first octet with the two low bits handled the other way round.
first_octet_swapped(b) == bit_or(bit_and(b, 253), 1)

first_octet(b) == bit_or(bit_and(b, 252), 2)

\* generate_random_mac, for the six bytes the generator gives.
generate_random_mac(bytes) ==
    hex02(first_octet(bytes[1])) \o ":" \o hex02(bytes[2]) \o ":" \o hex02(bytes[3])
        \o ":" \o hex02(bytes[4]) \o ":" \o hex02(bytes[5]) \o ":" \o hex02(bytes[6])

\* The bytes the generator is modelled to give: every first byte, the
\* extremes for the others.
RandomBytes == {<<b>> \o rest : b \in 0..255, rest \in [1..5 -> {0, 255}]}

\* The lookups parse_interface_line makes for a line, in call order, each
\* with what the system answers: none before the loopback return.
lookups_of(line, dev) ==
    LET parts == split_whitespace(line)
        name == to_string(trim_end_matches(parts[2], ":"))
    IN  IF Len(parts) < 2 \/ name = "lo" THEN <<>>
        ELSE <<[fn |-> "detect_interface_type", name |-> name, out |-> dev.wireless],
               [fn |-> "get_mac_address", name |-> name, out |-> dev.address],
               [fn |-> "get_ip_address", name |-> name, out |-> dev.addr_show],
               [fn |-> "get_driver", name |-> name, out |-> dev.driver]>>

\* A parser that gives up on a device whose MAC address cannot be read.
parse_interface_line_needs_mac(line, dev) ==
    LET parts == split_whitespace(line)
        name == trim_end_matches(parts[2], ":")
    IN  IF Len(parts) < 2 THEN None
        ELSE IF to_string(name) = "lo"
        THEN Some([name |-> to_string(name), mac_address |-> None,
                   ip_address |-> None, state |-> "Up",
                   interface_type |-> "Loopback", driver |-> None])
        ELSE IF dev.address = None THEN None
        ELSE Some([name |-> to_string(name),
                   mac_address |-> get_mac_address(dev.address),
                   ip_address |-> get_ip_address(dev.addr_show),
                   state |-> link_state(line),
                   interface_type |-> detect_interface_type(name, dev.wireless),
                   driver |-> get_driver(dev.driver)])

\* A parser without the loopback return.
parse_interface_line_no_loopback(line, dev) ==
    LET parts == split_whitespace(line)
        name == trim_end_matches(parts[2], ":")
    IN  IF Len(parts) < 2 THEN None
        ELSE Some([name |-> to_string(name),
                   mac_address |-> get_mac_address(dev.address),
                   ip_address |-> get_ip_address(dev.addr_show),
                   state |-> link_state(line),
                   interface_type |-> detect_interface_type(name, dev.wireless),
                   driver |-> get_driver(dev.driver)])

\* parse_interface_line; dev is what the system answers to the lookups on
\* the device: the wireless marker, the address file, `ip -4 addr show`, the
\* driver link.
parse_interface_line(line, dev) ==
    LET parts == split_whitespace(line)
        name == trim_end_matches(parts[2], ":")
    IN  IF Len(parts) < 2 THEN None
        ELSE IF to_string(name) = "lo"
        THEN Some([name |-> to_string(name), mac_address |-> None,
                   ip_address |-> None, state |-> "Up",
                   interface_type |-> "Loopback", driver |-> None])
        ELSE Some([name |-> to_string(name),
                   mac_address |-> get_mac_address(dev.address),
                   ip_address |-> get_ip_address(dev.addr_show),
                   state |-> link_state(line),
                   interface_type |-> detect_interface_type(name, dev.wireless),
                   driver |-> get_driver(dev.driver)])

\* A line of `ip -o link show`.
LinkLine(index, name, state) ==
    <<index, ":", " ", name, ":", " ", "<BROADCAST,MULTICAST>", " ", "mtu", " ",
      "1500", " ">> \o state \o <<" ", "mode", " ", "DEFAULT">>

\* The lines of the modelled listings: the loopback (state UNKNOWN, as the
\* kernel reports it, and with either marker), a link up, a link down, a link with neither marker,
\* a line with both markers, a line with the marker broken by a second
\* space, and a line of one word.
LinkLines ==
    { LinkLine("1", "lo", <<"state", " ", "UNKNOWN">>),
      LinkLine("1", "lo", StateDown),
      LinkLine("1", "lo", StateUp),
      LinkLine("2", "wlan0", StateUp),
      LinkLine("3", "eth0", StateDown),
      LinkLine("4", "tun0", <<"state", " ", "UNKNOWN">>),
      LinkLine("5", "veth1", StateDown \o <<" ", "alias", " ">> \o StateUp),
      LinkLine("6", "eth0", <<"state", " ", " ", "UP">>),
      <<"eth0", ":">> }

\* Listings for the interface kinds: a name of every pattern, a name of no
\* pattern and a capitalised name.
KindNames ==
    {"wlan0", "wlp2s0", "wifi0", "eth0", "enp3s0", "veth1", "docker0", "br-lan",
     "tun0", "Wlan0"}

KindLines == {LinkLine("2", name, StateUp) : name \in KindNames}

\* What the system answers to the lookups on one device.
MacFile == <<"aa:bb:cc:dd:ee:ff", "\n">>
AddrShow ==
    << <<"2", ":", " ", "eth0", ":", " ", "mtu", " ", "1500">>,
       <<" ", " ", "inet", " ", "10.0.0.5", "/", "24", " ", "brd">>,
       <<" ", " ", "inet", " ", "10.0.0.6", "/", "24">> >>
AddrShowShort ==
    << <<"inet", " ">>, <<" ", " ", "inet", " ", "10.0.0.6", "/", "24">> >>
DriverLink == <<"..", "..", "bus", "pci", "drivers", "iwlwifi">>

Devices ==
    { [wireless |-> FALSE, address |-> None, addr_show |-> None, driver |-> None],
      [wireless |-> TRUE, address |-> Some(MacFile), addr_show |-> Some(AddrShow),
       driver |-> Some(DriverLink)],
      [wireless |-> FALSE, address |-> Some(MacFile), addr_show |-> Some(AddrShowShort),
       driver |-> None],
      [wireless |-> FALSE, address |-> Some(MacFile), addr_show |-> Some(<<>>),
       driver |-> Some(<<"..">>)] }

\* How `ip -o link show` can end: not spawned, non-zero exit, success.
Listings == {[kind |-> "Io", success |-> FALSE],
             [kind |-> "Output", success |-> FALSE],
             [kind |-> "Output", success |-> TRUE]}

listing_ok(l) == l.kind = "Output" /\ l.success

\* A filter that only leaves out the loopback.
wireless_only_but_loopback(v) == SelectSeq(v, LAMBDA i : i.interface_type # "Loopback")

\* The filter of get_wireless_interfaces.
wireless_only(v) == SelectSeq(v, LAMBDA i : i.interface_type = "Wireless")

InitNet ==
    /\ net_fn = "none"
    /\ net_pc = "idle"
    /\ listing = [kind |-> "None", success |-> FALSE]
    /\ stdout = <<>>
    /\ parsed = <<>>
    /\ lookups = <<>>
    /\ interfaces = <<>>
    /\ net_ret = [tag |-> "None", val |-> <<>>]

\* get_interfaces up to its loop: the listing was obtained.
GetInterfacesBegin ==
    /\ net_pc = "idle"
    /\ \E l \in Listings : listing_ok(l) /\ listing' = l
    /\ net_fn' = "get_interfaces"
    /\ net_pc' = "listing"
    /\ stdout' = <<>>
    /\ parsed' = <<>>
    /\ lookups' = <<>>
    /\ interfaces' = <<>>
    /\ net_ret' = [tag |-> "Pending", val |-> <<>>]
    /\ UNCHANGED <<scannerVars, call, runVars, uiVars>>

\* get_interfaces when the listing could not be obtained.
GetInterfacesFail(l) ==
    /\ net_pc = "idle"
    /\ ~listing_ok(l)
    /\ listing' = l
    /\ net_fn' = "get_interfaces"
    /\ stdout' = <<>>
    /\ parsed' = <<>>
    /\ lookups' = <<>>
    /\ interfaces' = <<>>
    /\ net_ret' = [tag |-> "Err",
                   val |-> IF l.kind = "Io" THEN "io error"
                           ELSE "Failed to get network interfaces"]
    /\ UNCHANGED <<net_pc, scannerVars, call, runVars, uiVars>>

\* One turn of the loop of get_interfaces.
ParseInterfaceLine(line, dev) ==
    /\ net_pc = "listing"
    /\ Len(stdout) < MaxLinks
    /\ LET iface == parse_interface_line(line, dev)
       IN  /\ stdout' = Append(stdout, line)
           /\ parsed' = Append(parsed, iface)
           /\ lookups' = Append(lookups, lookups_of(line, dev))
           /\ interfaces' = IF iface # None THEN Append(interfaces, iface[1])
                            ELSE interfaces
    /\ UNCHANGED <<net_fn, net_pc, listing, net_ret, scannerVars, call, runVars, uiVars>>

\* The end of the listing: Ok(interfaces).
GetInterfacesEnd ==
    /\ net_pc = "listing"
    /\ net_fn = "get_interfaces"
    /\ net_pc' = "idle"
    /\ net_ret' = [tag |-> "Ok", val |-> interfaces]
    /\ UNCHANGED <<net_fn, listing, stdout, parsed, lookups, interfaces, scannerVars, call, runVars, uiVars>>

\* get_wireless_interfaces up to the loop of the get_interfaces it calls.
GetWirelessInterfacesBegin ==
    /\ net_pc = "idle"
    /\ \E l \in Listings : listing_ok(l) /\ listing' = l
    /\ net_fn' = "get_wireless_interfaces"
    /\ net_pc' = "listing"
    /\ stdout' = <<>>
    /\ parsed' = <<>>
    /\ lookups' = <<>>
    /\ interfaces' = <<>>
    /\ net_ret' = [tag |-> "Pending", val |-> <<>>]
    /\ UNCHANGED <<scannerVars, call, runVars, uiVars>>

\* get_wireless_interfaces when get_interfaces fails: the error is passed on.
GetWirelessInterfacesFail(l) ==
    /\ net_pc = "idle"
    /\ ~listing_ok(l)
    /\ listing' = l
    /\ net_fn' = "get_wireless_interfaces"
    /\ stdout' = <<>>
    /\ parsed' = <<>>
    /\ lookups' = <<>>
    /\ interfaces' = <<>>
    /\ net_ret' = [tag |-> "Err",
                   val |-> IF l.kind = "Io" THEN "io error"
                           ELSE "Failed to get network interfaces"]
    /\ UNCHANGED <<net_pc, scannerVars, call, runVars, uiVars>>

\* get_wireless_interfaces after its get_interfaces returned: the filter.
GetWirelessInterfacesEnd ==
    /\ net_pc = "listing"
    /\ net_fn = "get_wireless_interfaces"
    /\ net_pc' = "idle"
    /\ net_ret' = [tag |-> "Ok", val |-> wireless_only(interfaces)]
    /\ UNCHANGED <<net_fn, listing, stdout, parsed, lookups, interfaces, scannerVars, call, runVars, uiVars>>

(***************************************************************************)
(* The lines of the modelled scan texts.  Field lines are indented with a  *)
(* tab, as iw prints them.                                                 *)
(***************************************************************************)
BssLine(bssid) == <<"BSS ", bssid, "(", "on wlan0)">>
\* The "BSS Load" element iw prints inside a block.
BssLoadLine == <<"\t", "BSS ", "Load:">>
SsidLine == <<"\t", "SSID:", " ", "home">>
FreqLine == <<"\t", "freq:", " ", "2412">>
SignalLine(dbm) == <<"\t", "signal:", " ", dbm, " ", "dBm">>
ChannelLine == <<"\t", "DS Parameter set:", " ", "channel", " ", "6">>
RsnLine == <<"\t", "RSN:", "\t", " * Version: 1">>
RsnEapLine == <<"\t", "RSN:", " ", "802.1X">>
Wpa2EapLine == <<"\t", "WPA2", " ", "EAP">>
WpaLine == <<"\t", "WPA:", "\t", " * Version: 1">>
WepLine == <<"\t", "WEP">>
Wpa3Line == <<"\t", "WPA3", " ", "SAE">>

\* Texts of the cache specification: two access points, few field values.
CacheLines == {BssLine("b1"), BssLine("b2"), SignalLine("-40"), RsnLine}

\* Texts of the parse specification: every field category.
ScanLines ==
    {BssLine("b1"), BssLine("b2"), BssLoadLine, SsidLine, FreqLine,
     SignalLine("-40"), SignalLine("-80"), ChannelLine, RsnLine}

\* Texts of the security specification: one access point, every marker.
SecurityLines ==
    {BssLine("b1"), Wpa3Line, RsnLine, RsnEapLine, Wpa2EapLine, WpaLine, WepLine}

\* A scan text with malformed and off-table values, one access point.
OffTableFreqLine == <<"\t", "freq:", " ", "2400">>
DecimalSignalLine == <<"\t", "signal:", " ", "-40.00", " ", "dBm">>
EmptySignalLine == <<"\t", "signal:">>
EmptyLine == <<>>

\* A scan text whose lines fit two categories: a network named "WPA2", and
\* a channel line with "WEP" in it.
SsidWpaLine == <<"\t", "SSID:", " ", "WPA2">>
ChannelWepLine == <<"\t", "DS Parameter set:", " ", "channel", " ", "11", " ", "WEP">>

CategoryLines ==
    {BssLine("b1"), SsidWpaLine, FreqLine, SignalLine("-40"), RsnLine, ChannelLine,
     ChannelWepLine}

FieldLines ==
    {BssLine("b1"), FreqLine, OffTableFreqLine, SignalLine("-40"),
     DecimalSignalLine, EmptySignalLine, ChannelLine, EmptyLine}

(***************************************************************************)
(* WifiScanner::scan: the trigger                                          *)
(***************************************************************************)
\* What iw writes to stderr when it fails.
PermissionStderr == <<"command failed: ", "Operation not permitted", " (-1)", "\n">>
DownStderr == <<"command failed: ", "Network is down", " (-100)", "\n">>
BusyStderr == <<"command failed: ", "Device or resource busy", " (-16)", "\n">>

\* How `timeout(10 s, iw dev <if> scan)` ends: the timeout elapses, the
\* process cannot be spawned, or iw exits with a status and its stderr.
Triggers ==
    {[kind |-> "Elapsed", success |-> FALSE, stderr |-> <<>>],
     [kind |-> "Io", success |-> FALSE, stderr |-> <<>>],
     [kind |-> "Output", success |-> TRUE, stderr |-> <<>>]}
    \cup {[kind |-> "Output", success |-> FALSE, stderr |-> e] :
              e \in {PermissionStderr, DownStderr, BusyStderr}}

\* A scan that parses whatever iw printed, whatever its exit status.
trigger_ok_any_status(trigger) == trigger.kind = "Output"

\* ".await??" and "scan_result.status.success()": the parser runs only on
\* the output of an iw that exited with status 0.
trigger_ok(trigger) == trigger.kind = "Output" /\ trigger.success

RemedyHint == ". Try running with sudo or ensure interface is up."

\* An error message that carries the remedy hint for every failed exit.
scan_error_always_hint(trigger) ==
    IF trigger.kind = "Elapsed" THEN <<"deadline has elapsed">>
    ELSE IF trigger.kind = "Io" THEN <<"No such file or directory (os error 2)">>
    ELSE <<"Scan failed: ">> \o trim(trigger.stderr) \o <<RemedyHint>>

\* The message of the error scan returns for a failed trigger.
scan_error(trigger) ==
    IF trigger.kind = "Elapsed" THEN <<"deadline has elapsed">>
    ELSE IF trigger.kind = "Io" THEN <<"No such file or directory (os error 2)">>
    ELSE IF contains(trigger.stderr, "Operation not permitted")
            \/ contains(trigger.stderr, "Network is down")
    THEN <<"Scan failed: ">> \o trim(trigger.stderr) \o <<RemedyHint>>
    ELSE <<"Scan failed: ">> \o trim(trigger.stderr)

(***************************************************************************)
(* State machine                                                           *)
(***************************************************************************)
\* ContinuousScanner::run has not been called.
InitRun ==
    /\ run_pc = "none"
    /\ iterations = 0
    /\ callbacks = [count |-> 0, last |-> <<>>]
    /\ reported = [count |-> 0, last |-> <<>>]

\* impl Default for App
App_default ==
    [running |-> TRUE,
     current_tab |-> 0,
     interfaces |-> <<>>,
     interface_state |-> None,
     networks |-> <<>>,
     network_state |-> None,
     selected_interface |-> None,
     status_message |-> "",
     show_help |-> FALSE,
     input_mode |-> "Normal",
     input_buffer |-> ""]

\* No key handler has run.
NoKey == [key |-> "none", refresh |-> "None", op |-> <<>>]

\* App::new has not been called.
InitUi ==
    /\ app = App_default
    /\ ui_pc = "new"
    /\ handled = NoKey

\* WifiScanner::new
Init ==
    /\ self_networks = <<>>
    /\ pc = "idle"
    /\ output = <<>>
    /\ networks = <<>>
    /\ current_network = None
    /\ ret = [tag |-> "None", val |-> <<>>]
    /\ seen = {}
    /\ scan_result = [kind |-> "None", success |-> FALSE, stderr |-> <<>>]
    /\ call = [fn |-> "none", arg |-> 0, result |-> <<>>]
    /\ InitNet
    /\ InitRun
    /\ InitUi

\* A scan whose Vec of results outlives the call.
ScanBegin_keeps_networks ==
    /\ pc = "idle"
    /\ \E trigger \in Triggers : trigger_ok(trigger) /\ scan_result' = trigger
    /\ pc' = "parsing"
    /\ output' = <<>>
    /\ current_network' = None
    /\ ret' = [tag |-> "Pending", val |-> <<>>]
    /\ UNCHANGED <<self_networks, networks, seen, otherVars>>

\* scan(): the trigger succeeded, parse_scan_results starts on its output.
ScanBegin ==
    /\ pc = "idle"
    /\ \E trigger \in Triggers : trigger_ok(trigger) /\ scan_result' = trigger
    /\ pc' = "parsing"
    /\ output' = <<>>
    /\ networks' = <<>>
    /\ current_network' = None
    /\ ret' = [tag |-> "Pending", val |-> <<>>]
    /\ UNCHANGED <<self_networks, seen, otherVars>>

\* scan(): the trigger failed, the error is returned and the parser never runs.
ScanFail(trigger) ==
    /\ pc = "idle"
    /\ ~trigger_ok(trigger)
    /\ scan_result' = trigger
    /\ ret' = [tag |-> "Err", val |-> scan_error(trigger)]
    /\ output' = <<>>
    /\ networks' = <<>>
    /\ UNCHANGED <<self_networks, pc, current_network, seen, otherVars>>

\* One iteration of "for line in output.lines()".
\* A loop whose marker branch keeps the fields of the builder before it.
ParseLine_keeps_builder(raw) ==
    /\ pc = "parsing"
    /\ Len(output) < MaxLines
    /\ output' = Append(output, raw)
    /\ LET line == trim(raw)
       IN  IF starts_with(line, "BSS ") THEN
               LET saved == save_previous(self_networks, networks, current_network)
               IN  /\ self_networks' = saved.cache
                   /\ networks' = saved.networks
                   /\ current_network' =
                          IF current_network = None
                          THEN Some(WifiNetworkBuilder_new(marker_bssid(line)))
                          ELSE Some([current_network[1] EXCEPT !.bssid = marker_bssid(line)])
                   /\ seen' = seen \cup {marker_bssid(line)}
           ELSE IF current_network # None THEN
               /\ current_network' = Some(update_builder(current_network[1], line))
               /\ UNCHANGED <<self_networks, networks, seen>>
           ELSE UNCHANGED <<self_networks, networks, current_network, seen>>
    /\ UNCHANGED <<pc, ret, scan_result, otherVars>>

ParseLine(raw) ==
    /\ pc = "parsing"
    /\ Len(output) < MaxLines
    /\ output' = Append(output, raw)
    /\ LET line == trim(raw)
       IN  IF starts_with(line, "BSS ") THEN
               LET saved == save_previous(self_networks, networks, current_network)
               IN  /\ self_networks' = saved.cache
                   /\ networks' = saved.networks
                   /\ current_network' = Some(WifiNetworkBuilder_new(marker_bssid(line)))
                   /\ seen' = seen \cup {marker_bssid(line)}
           ELSE IF current_network # None THEN
               /\ current_network' = Some(update_builder(current_network[1], line))
               /\ UNCHANGED <<self_networks, networks, seen>>
           ELSE UNCHANGED <<self_networks, networks, current_network, seen>>
    /\ UNCHANGED <<pc, ret, scan_result, otherVars>>

\* A parser that reports a text without networks as an error.
ParseEnd_err_if_empty ==
    /\ pc = "parsing"
    /\ LET saved == save_last(self_networks, networks, current_network)
       IN  /\ self_networks' = saved.cache
           /\ networks' = saved.networks
           /\ ret' = IF saved.networks = <<>>
                     THEN [tag |-> "Err", val |-> <<"No networks found">>]
                     ELSE [tag |-> "Ok", val |-> sort_by(saved.networks)]
    /\ current_network' = None
    /\ pc' = "idle"
    /\ UNCHANGED <<output, seen, scan_result, otherVars>>

\* The end of the input: the last builder is saved, the Vec sorted and returned.
ParseEnd ==
    /\ pc = "parsing"
    /\ LET saved == save_last(self_networks, networks, current_network)
       IN  /\ self_networks' = saved.cache
           /\ networks' = saved.networks
           /\ ret' = [tag |-> "Ok", val |-> sort_by(saved.networks)]
    /\ current_network' = None
    /\ pc' = "idle"
    /\ UNCHANGED <<output, seen, scan_result, otherVars>>

\* WifiScanner::clear_cache
ClearCache ==
    /\ pc = "idle"
    /\ self_networks' = <<>>
    /\ seen' = {}
    /\ ret' = [tag |-> "Unit", val |-> <<>>]
    /\ UNCHANGED <<pc, output, networks, current_network, scan_result, otherVars>>

\* The scanner over its lifetime: scans that succeed or fail, and clear_cache.
Next ==
    \/ ScanBegin
    \/ \E trigger \in Triggers : ScanFail(trigger)
    \/ \E raw \in CacheLines : ParseLine(raw)
    \/ ParseEnd
    \/ ClearCache

Spec == Init /\ [][Next]_vars

(***************************************************************************)
(* ContinuousScanner::run                                                  *)
(***************************************************************************)
\* Most iterations of run's loop.
MaxScans == 2

\* ContinuousScanner::new, and run up to the scan of its first iteration.
RunStart ==
    /\ run_pc = "none"
    /\ pc = "idle"
    /\ run_pc' = "scan"
    /\ ret' = [tag |-> "Pending", val |-> <<>>]
    /\ UNCHANGED <<self_networks, pc, output, networks, current_network, seen,
                   scan_result, iterations, callbacks, reported, call, netVars, uiVars>>

\* self.scanner.scan() of the iteration.
RunScanBegin == run_pc = "scan" /\ ret.tag = "Pending" /\ ScanBegin

RunScanFail(trigger) == run_pc = "scan" /\ ret.tag = "Pending" /\ ScanFail(trigger)

\* A loop that leaves on the first error.
RunMatch_returns_on_error ==
    /\ run_pc = "scan"
    /\ pc = "idle"
    /\ ret.tag \in {"Ok", "Err"}
    /\ IF ret.tag = "Ok"
       THEN /\ callbacks' = [count |-> callbacks.count + 1, last |-> ret.val]
            /\ run_pc' = "sleep"
            /\ UNCHANGED reported
       ELSE /\ run_pc' = "returned"
            /\ UNCHANGED <<callbacks, reported>>
    /\ UNCHANGED <<scannerVars, iterations, call, netVars, uiVars>>

\* The match on what the scan returned: the callback, or the message.
RunMatch ==
    /\ run_pc = "scan"
    /\ pc = "idle"
    /\ ret.tag \in {"Ok", "Err"}
    /\ IF ret.tag = "Ok"
       THEN /\ callbacks' = [count |-> callbacks.count + 1, last |-> ret.val]
            /\ UNCHANGED reported
       ELSE /\ reported' = [count |-> reported.count + 1,
                            last |-> <<"Scan error: ">> \o ret.val]
            /\ UNCHANGED callbacks
    /\ run_pc' = "sleep"
    /\ UNCHANGED <<scannerVars, iterations, call, netVars, uiVars>>

\* The sleep of the iteration, and the loop back to the next scan.
RunSleep ==
    /\ run_pc = "sleep"
    /\ iterations + 1 < MaxScans
    /\ iterations' = iterations + 1
    /\ run_pc' = "scan"
    /\ ret' = [tag |-> "Pending", val |-> <<>>]
    /\ UNCHANGED <<self_networks, pc, output, networks, current_network, seen,
                   scan_result, callbacks, reported, call, netVars, uiVars>>

\* Texts of the scans of run: two access points and a field.
RunLines == {BssLine("b1"), BssLine("b2"), SignalLine("-40")}

NextRun ==
    \/ RunStart
    \/ RunScanBegin
    \/ \E trigger \in Triggers : RunScanFail(trigger)
    \/ \E raw \in RunLines : ParseLine(raw)
    \/ ParseEnd
    \/ RunMatch
    \/ RunSleep

SpecRun == Init /\ [][NextRun]_vars

(***************************************************************************)
(* The TUI: App and the key handlers of run_app                            *)
(***************************************************************************)
\* Longest input buffer, in characters.
MaxBuffer == 4

\* Vec::get, for an index counted from 0.
get(v, i) == IF i < Len(v) THEN Some(v[i + 1]) ELSE None

\* App::refresh_interfaces, for what get_interfaces returns.
refresh_interfaces(a, outcome) ==
    IF outcome.tag = "Ok"
    THEN [a EXCEPT !.interfaces = outcome.val,
                   !.interface_state =
                       IF a.interface_state = None /\ outcome.val # <<>>
                       THEN Some(0) ELSE @]
    ELSE [a EXCEPT !.status_message = "Error: " \o outcome.val]

\* App::selected_interface
selected_interface(a) ==
    IF a.interface_state = None THEN None
    ELSE get(a.interfaces, a.interface_state[1])

\* The index next_interface and next_network select in a list of len.
next_index(selected, len) ==
    IF selected = None THEN 0
    ELSE IF selected[1] >= len - 1 THEN 0 ELSE selected[1] + 1

previous_index(selected, len) ==
    IF selected = None THEN 0
    ELSE IF selected[1] = 0 THEN len - 1 ELSE selected[1] - 1

next_interface(a) ==
    IF a.interfaces = <<>> THEN a
    ELSE [a EXCEPT !.interface_state = Some(next_index(@, Len(a.interfaces)))]

previous_interface(a) ==
    IF a.interfaces = <<>> THEN a
    ELSE [a EXCEPT !.interface_state = Some(previous_index(@, Len(a.interfaces)))]

next_network(a) ==
    IF a.networks = <<>> THEN a
    ELSE [a EXCEPT !.network_state = Some(next_index(@, Len(a.networks)))]

previous_network(a) ==
    IF a.networks = <<>> THEN a
    ELSE [a EXCEPT !.network_state = Some(previous_index(@, Len(a.networks)))]

next_tab(a) == [a EXCEPT !.current_tab = (@ + 1) % 3]

previous_tab(a) == [a EXCEPT !.current_tab = IF @ = 0 THEN 2 ELSE @ - 1]

\* What a key handler did: the App it leaves, how its refresh ended ("None"
\* when it made none), and the operation of NetworkManager it invoked.
Handled(a, refresh, op) == [app |-> a, refresh |-> refresh, op |-> op]

\* A handler's "status; refresh_interfaces()" after an operation.
then_refresh(a, env, op) ==
    Handled(refresh_interfaces(a, env.refresh), env.refresh.tag, op)

\* A handler's Err(e) arm.
op_error(a, env, op) ==
    Handled([a EXCEPT !.status_message = "Error: " \o env.op.val], "None", op)

\* The keys that are KeyCode::Char(c), named by c.
CharKeys == {"q", "?", "j", "k", "r", "m", "u", "d", "s", "n", "M", "R", "0", "x"}

\* The arm of the 'r' key.
refresh_key(a, env) ==
    Handled([refresh_interfaces(a, env.refresh)
                 EXCEPT !.status_message = "Interfaces refreshed"],
            env.refresh.tag, <<>>)

\* The arm of the 's' key.
scan_key(a, env) ==
    LET iface == selected_interface(a)
    IN  IF iface = None THEN Handled(a, "None", <<>>)
        ELSE IF iface[1].interface_type = "Wireless" THEN
            LET name == iface[1].name
                a1 == [a EXCEPT !.status_message = "Scanning on " \o name \o "..."]
            IN  IF env.scan.tag = "Ok"
                THEN Handled([a1 EXCEPT
                                 !.networks = env.scan.val,
                                 !.network_state =
                                     IF env.scan.val # <<>> THEN Some(0) ELSE @,
                                 !.status_message =
                                     "Found " \o ToString(Len(env.scan.val)) \o " networks",
                                 !.current_tab = 1],
                             "None", <<"scan", name>>)
                ELSE Handled([a1 EXCEPT !.status_message = "Scan error: " \o env.scan.val],
                             "None", <<"scan", name>>)
        ELSE Handled([a EXCEPT !.status_message = "Select a wireless interface first"],
                     "None", <<>>)

\* The arm of the 'm' key.
monitor_key(a, env) ==
    LET iface == selected_interface(a)
    IN  IF iface = None THEN Handled(a, "None", <<>>)
        ELSE IF iface[1].interface_type = "Wireless" THEN
            LET name == iface[1].name
                mode == env.mode
                op == <<IF mode = "Monitor" THEN "disable_monitor_mode"
                        ELSE "enable_monitor_mode", name>>
                a1 == [a EXCEPT !.status_message =
                                    "Toggling monitor mode on " \o name \o "..."]
            IN  IF env.op.tag = "Ok"
                THEN then_refresh(
                         [a1 EXCEPT !.status_message =
                              "Monitor mode "
                                  \o (IF mode = "Monitor" THEN "disabled" ELSE "enabled")
                                  \o " on " \o name],
                         env, op)
                ELSE op_error(a1, env, op)
        ELSE Handled([a EXCEPT !.status_message = "Not a wireless interface"],
                     "None", <<>>)

\* The arms of the 'u' and 'd' keys.
link_key(a, env, op_name, state) ==
    LET iface == selected_interface(a)
    IN  IF iface = None THEN Handled(a, "None", <<>>)
        ELSE LET name == iface[1].name
             IN  IF env.op.tag = "Ok"
                 THEN then_refresh(
                          [a EXCEPT !.status_message = name \o " is now " \o state],
                          env, <<op_name, name>>)
                 ELSE op_error(a, env, <<op_name, name>>)

\* The arm of the 'n' key.
restart_key(a, env) ==
    LET a1 == [a EXCEPT !.status_message = "Restarting NetworkManager..."]
    IN  IF env.op.tag = "Ok"
        THEN then_refresh([a1 EXCEPT !.status_message = "NetworkManager restarted"],
                          env, <<"restart_network_manager">>)
        ELSE op_error(a1, env, <<"restart_network_manager">>)

\* The arm of the 'M' key; env.mac is what generate_random_mac returned.
spoof_key(a, env) ==
    LET iface == selected_interface(a)
    IN  IF iface = None THEN Handled(a, "None", <<>>)
        ELSE LET name == iface[1].name
                 a1 == [a EXCEPT !.status_message =
                            "Spoofing MAC on " \o name \o " to " \o env.mac \o "..."]
             IN  IF env.op.tag = "Ok"
                 THEN then_refresh(
                          [a1 EXCEPT !.status_message = "MAC changed to " \o env.mac],
                          env, <<"spoof_mac", name, env.mac>>)
                 ELSE op_error(a1, env, <<"spoof_mac", name, env.mac>>)

\* The arm of the 'R' key.
rename_key(a) ==
    LET iface == selected_interface(a)
    IN  IF iface = None THEN Handled(a, "None", <<>>)
        ELSE Handled([a EXCEPT
                         !.input_mode = "Rename",
                         !.input_buffer = iface[1].name,
                         !.status_message = "Enter new name for " \o iface[1].name
                                                \o " (Press Enter to confirm)"],
                     "None", <<>>)

\* The arms of InputMode::Normal.
normal_key(a, key, env) ==
    CASE key = "q" -> Handled([a EXCEPT !.running = FALSE], "None", <<>>)
      [] key \in {"?", "F1"} -> Handled([a EXCEPT !.show_help = ~@], "None", <<>>)
      [] key = "Tab" -> Handled(next_tab(a), "None", <<>>)
      [] key = "BackTab" -> Handled(previous_tab(a), "None", <<>>)
      [] key \in {"Down", "j"} ->
             Handled(IF a.current_tab = 0 THEN next_interface(a)
                     ELSE IF a.current_tab = 1 THEN next_network(a) ELSE a,
                     "None", <<>>)
      [] key \in {"Up", "k"} ->
             Handled(IF a.current_tab = 0 THEN previous_interface(a)
                     ELSE IF a.current_tab = 1 THEN previous_network(a) ELSE a,
                     "None", <<>>)
      [] key = "r" -> refresh_key(a, env)
      [] key = "m" -> monitor_key(a, env)
      [] key = "u" -> link_key(a, env, "bring_up", "UP")
      [] key = "d" -> link_key(a, env, "bring_down", "DOWN")
      [] key = "s" -> scan_key(a, env)
      [] key = "n" -> restart_key(a, env)
      [] key = "M" -> spoof_key(a, env)
      [] key = "R" -> rename_key(a)
      [] OTHER -> Handled(a, "None", <<>>)

\* String::pop
pop(buffer) == IF buffer = "" THEN buffer ELSE SubSeq(buffer, 1, Len(buffer) - 1)

\* An Enter arm that renames to whatever the buffer holds.
enter_key_unchecked(a, env) ==
    LET iface == selected_interface(a)
        leave(h) == [h EXCEPT !.app.input_mode = "Normal", !.app.input_buffer = ""]
    IN  IF a.input_mode = "Rename" /\ iface # None
        THEN LET old_name == iface[1].name
                 new_name == a.input_buffer
                 op == <<"rename_interface", old_name, new_name>>
             IN  IF env.op.tag = "Ok"
                 THEN leave(then_refresh(
                          [a EXCEPT !.status_message =
                               "Renamed " \o old_name \o " to " \o new_name],
                          env, op))
                 ELSE leave(op_error(a, env, op))
        ELSE leave(Handled(a, "None", <<>>))

\* The Enter arm of the input modes.
enter_key(a, env) ==
    LET iface == selected_interface(a)
        leave(h) == [h EXCEPT !.app.input_mode = "Normal", !.app.input_buffer = ""]
    IN  IF a.input_mode = "Rename" /\ iface # None
        THEN LET old_name == iface[1].name
                 new_name == a.input_buffer
                 op == <<"rename_interface", old_name, new_name>>
             IN  IF new_name # "" /\ new_name # old_name
                 THEN IF env.op.tag = "Ok"
                      THEN leave(then_refresh(
                               [a EXCEPT !.status_message =
                                    "Renamed " \o old_name \o " to " \o new_name],
                               env, op))
                      ELSE leave(op_error(a, env, op))
                 ELSE leave(Handled(a, "None", <<>>))
        ELSE leave(Handled(a, "None", <<>>))

\* The arms of InputMode::Rename | MacInput | ChannelInput.
input_key(a, key, env) ==
    CASE key = "Enter" -> enter_key(a, env)
      [] key = "Esc" ->
             Handled([a EXCEPT !.input_mode = "Normal", !.input_buffer = ""], "None", <<>>)
      [] key \in CharKeys ->
             Handled([a EXCEPT !.input_buffer = @ \o key], "None", <<>>)
      [] key = "Backspace" ->
             Handled([a EXCEPT !.input_buffer = pop(@)], "None", <<>>)
      [] OTHER -> Handled(a, "None", <<>>)

\* The match on app.input_mode and key.code of one pass of run_app's loop.
handle_key(a, key, env) ==
    IF a.input_mode = "Normal" THEN normal_key(a, key, env) ELSE input_key(a, key, env)

\* The interfaces and networks of the TUI's environment.
Wl0 == [name |-> "wl0", interface_type |-> "Wireless"]

En0 == [name |-> "en0", interface_type |-> "Ethernet"]

UiLists == {<<>>, <<Wl0>>, <<Wl0, En0>>}

UiNetworks ==
    LET n(b) == build(WifiNetworkBuilder_new(b))[1]
    IN  {<<>>, <<n("b1")>>, <<n("b1"), n("b2")>>}

\* What the calls of a handler return.
Unused == [tag |-> "Unused", val |-> <<>>]

RefreshOutcomes ==
    {[tag |-> "Ok", val |-> v] : v \in UiLists}
        \cup {[tag |-> "Err", val |-> "Failed to get network interfaces"]}

ScanOutcomes ==
    {[tag |-> "Ok", val |-> v] : v \in UiNetworks}
        \cup {[tag |-> "Err", val |-> "Scan timed out"]}

OpOutcomes == {[tag |-> "Ok", val |-> ""], [tag |-> "Err", val |-> "Operation not permitted"]}

\* The outcomes the handler of a key can meet.
Envs(key) ==
    [mode : IF key = "m" THEN {"Monitor", "Managed"} ELSE {"Unknown"},
     mac : IF key = "M" THEN {"02:00:00:00:00:01"} ELSE {""},
     op : IF key \in {"m", "u", "d", "n", "M", "Enter"} THEN OpOutcomes ELSE {Unused},
     scan : IF key = "s" THEN ScanOutcomes ELSE {Unused},
     refresh : IF key \in {"r", "m", "u", "d", "n", "M", "Enter"}
               THEN RefreshOutcomes ELSE {Unused}]

\* App::new
AppNew ==
    /\ ui_pc = "new"
    /\ \E outcome \in RefreshOutcomes :
           /\ app' = refresh_interfaces(App_default, outcome)
           /\ handled' = [key |-> "none", refresh |-> outcome.tag, op |-> <<>>]
    /\ ui_pc' = "loop"
    /\ UNCHANGED <<scannerVars, call, netVars, runVars>>

\* One pass of run_app's loop in which a key press was read.
KeyPress(key) ==
    /\ ui_pc = "loop"
    /\ (app.input_mode # "Normal" /\ key \in CharKeys) => Len(app.input_buffer) < MaxBuffer
    /\ \E env \in Envs(key) :
           LET h == handle_key(app, key, env)
           IN  /\ app' = h.app
               /\ handled' = [key |-> key, refresh |-> h.refresh, op |-> h.op]
    /\ ui_pc' = IF app.input_mode = "Normal" /\ key = "q" THEN "exited" ELSE "loop"
    /\ UNCHANGED <<scannerVars, call, netVars, runVars>>

\* The keys of InputMode::Normal but 'R'.
CommandKeys ==
    {"q", "?", "Tab", "BackTab", "j", "k", "r", "m", "u", "d", "s", "n", "M", "x"}

NextUi ==
    \/ AppNew
    \/ \E key \in CommandKeys : KeyPress(key)

SpecUi == Init /\ [][NextUi]_vars

\* The keys of a rename, with navigation and the refresh.
RenameKeys == {"R", "Enter", "Esc", "Backspace", "0", "j", "r"}

NextRename ==
    \/ AppNew
    \/ \E key \in RenameKeys : KeyPress(key)

SpecRename == Init /\ [][NextRename]_vars

\* A scan on a scanner whose cache is empty (new, or after clear_cache).
FreshScanBegin == DOMAIN self_networks = {} /\ ScanBegin

\* One parse of a text with every field category.
NextParse ==
    \/ FreshScanBegin
    \/ \E raw \in ScanLines : ParseLine(raw)
    \/ ParseEnd
    \/ ClearCache

SpecParse == Init /\ [][NextParse]_vars

\* One parse of a text of security lines.
NextSecurity ==
    \/ FreshScanBegin
    \/ \E raw \in SecurityLines : ParseLine(raw)
    \/ ParseEnd
    \/ ClearCache

SpecSecurity == Init /\ [][NextSecurity]_vars

\* One parse of a text with lines that fit two categories.
NextCategories ==
    \/ FreshScanBegin
    \/ \E raw \in CategoryLines : ParseLine(raw)
    \/ ParseEnd
    \/ ClearCache

SpecCategories == Init /\ [][NextCategories]_vars

\* One scan on an empty cache whose text has malformed and off-table values,
\* or whose trigger fails.
NextFields ==
    \/ FreshScanBegin
    \/ \E trigger \in Triggers : ScanFail(trigger)
    \/ \E raw \in FieldLines : ParseLine(raw)
    \/ ParseEnd
    \/ ClearCache

SpecFields == Init /\ [][NextFields]_vars

\* A free function is about to be called on an argument.
InitHelpers ==
    /\ self_networks = <<>>
    /\ pc = "idle"
    /\ output = <<>>
    /\ networks = <<>>
    /\ current_network = None
    /\ ret = [tag |-> "None", val |-> <<>>]
    /\ seen = {}
    /\ scan_result = [kind |-> "None", success |-> FALSE, stderr |-> <<>>]
    /\ call \in [fn : {"pending"}, arg : FreqInputs \cup DbmInputs, result : {<<>>}]
    /\ InitNet
    /\ InitRun
    /\ InitUi

FreqToChannel ==
    /\ call.fn = "pending"
    /\ call.arg \in FreqInputs
    /\ call' = [fn |-> "freq_to_channel", arg |-> call.arg,
                result |-> freq_to_channel(call.arg)]
    /\ UNCHANGED <<scannerVars, netVars, runVars, uiVars>>

SignalToQuality ==
    /\ call.fn = "pending"
    /\ call.arg \in DbmInputs
    /\ call' = [fn |-> "signal_to_quality", arg |-> call.arg,
                result |-> signal_to_quality(call.arg)]
    /\ UNCHANGED <<scannerVars, netVars, runVars, uiVars>>

SignalToBars ==
    /\ call.fn = "pending"
    /\ call.arg \in DbmInputs
    /\ call' = [fn |-> "signal_to_bars", arg |-> call.arg,
                result |-> signal_to_bars(call.arg)]
    /\ UNCHANGED <<scannerVars, netVars, runVars, uiVars>>

\* One call of a free function.
NextHelpers == FreqToChannel \/ SignalToQuality \/ SignalToBars

SpecHelpers == InitHelpers /\ [][NextHelpers]_vars

\* The values of SecurityType, and every modelled line.
SecurityTypes == {"Open", "WEP", "WPA", "WPA2", "WPA3", "WPA2Enterprise", "Unknown"}
SecurityInputs == CacheLines \cup ScanLines \cup SecurityLines \cup FieldLines

\* update_security is about to be called on a builder and a line.
InitUpdateSecurity ==
    /\ self_networks = <<>>
    /\ pc = "idle"
    /\ output = <<>>
    /\ networks = <<>>
    /\ current_network = None
    /\ ret = [tag |-> "None", val |-> <<>>]
    /\ seen = {}
    /\ scan_result = [kind |-> "None", success |-> FALSE, stderr |-> <<>>]
    /\ call \in [fn : {"pending"},
                 arg : [security : SecurityTypes, line : SecurityInputs],
                 result : {<<>>}]
    /\ InitNet
    /\ InitRun
    /\ InitUi

\* builder.update_security(line), once and then once more with the same
\* line; call.result holds the security after each call.
UpdateSecurity ==
    /\ call.fn \in {"pending", "update_security"}
    /\ Len(call.result) < 2
    /\ LET security == IF call.result = <<>> THEN call.arg.security
                       ELSE call.result[Len(call.result)]
       IN  call' = [fn |-> "update_security", arg |-> call.arg,
                    result |-> Append(call.result,
                                      update_security(security, trim(call.arg.line)))]
    /\ UNCHANGED <<scannerVars, netVars, runVars, uiVars>>

NextUpdateSecurity == UpdateSecurity

SpecUpdateSecurity == InitUpdateSecurity /\ [][NextUpdateSecurity]_vars

\* get_wireless_mode is about to be called, and `iw dev <if> info` ends as
\* call.arg says.
InitMode ==
    /\ self_networks = <<>>
    /\ pc = "idle"
    /\ output = <<>>
    /\ networks = <<>>
    /\ current_network = None
    /\ ret = [tag |-> "None", val |-> <<>>]
    /\ seen = {}
    /\ scan_result = [kind |-> "None", success |-> FALSE, stderr |-> <<>>]
    /\ call \in [fn : {"pending"}, arg : InfoOutcomes, result : {<<>>}]
    /\ InitNet
    /\ InitRun
    /\ InitUi

GetWirelessMode ==
    /\ call.fn = "pending"
    /\ call' = [fn |-> "get_wireless_mode", arg |-> call.arg,
                result |-> get_wireless_mode(call.arg)]
    /\ UNCHANGED <<scannerVars, netVars, runVars, uiVars>>

NextMode == GetWirelessMode

SpecMode == InitMode /\ [][NextMode]_vars

\* One of the four link operations is about to be called; call.arg gives
\* how its three commands end.
InitLinkOp ==
    /\ self_networks = <<>>
    /\ pc = "idle"
    /\ output = <<>>
    /\ networks = <<>>
    /\ current_network = None
    /\ ret = [tag |-> "None", val |-> <<>>]
    /\ seen = {}
    /\ scan_result = [kind |-> "None", success |-> FALSE, stderr |-> <<>>]
    /\ call \in [fn : {"pending"},
                 arg : [op : LinkOps, down : CmdOutcomes, change : CmdOutcomes,
                        up : CmdOutcomes],
                 result : {<<>>}]
    /\ InitNet
    /\ InitRun
    /\ InitUi

LinkOp ==
    /\ call.fn = "pending"
    /\ call' = [fn |-> call.arg.op, arg |-> call.arg,
                result |-> link_op(call.arg.op, "wlan0",
                                   IF call.arg.op = "rename_interface" THEN "mon0"
                                   ELSE "02:00:00:00:00:01",
                                   call.arg.down, call.arg.change, call.arg.up)]
    /\ UNCHANGED <<scannerVars, netVars, runVars, uiVars>>

NextLinkOp == LinkOp

SpecLinkOp == InitLinkOp /\ [][NextLinkOp]_vars

\* generate_random_mac is about to be called; call.arg is the bytes the
\* generator will give.
InitMac ==
    /\ self_networks = <<>>
    /\ pc = "idle"
    /\ output = <<>>
    /\ networks = <<>>
    /\ current_network = None
    /\ ret = [tag |-> "None", val |-> <<>>]
    /\ seen = {}
    /\ scan_result = [kind |-> "None", success |-> FALSE, stderr |-> <<>>]
    /\ call \in [fn : {"pending"}, arg : RandomBytes, result : {<<>>}]
    /\ InitNet
    /\ InitRun
    /\ InitUi

GenerateRandomMac ==
    /\ call.fn = "pending"
    /\ call' = [fn |-> "generate_random_mac", arg |-> call.arg,
                result |-> generate_random_mac(call.arg)]
    /\ UNCHANGED <<scannerVars, netVars, runVars, uiVars>>

NextMac == GenerateRandomMac

SpecMac == InitMac /\ [][NextMac]_vars

\* Enumerations of the interfaces, over listings of up to MaxLinks lines.
NextNet ==
    \/ GetInterfacesBegin
    \/ \E l \in Listings : GetInterfacesFail(l)
    \/ \E line \in LinkLines, dev \in Devices : ParseInterfaceLine(line, dev)
    \/ GetInterfacesEnd

SpecNet == Init /\ [][NextNet]_vars

\* Enumerations by get_interfaces and by get_wireless_interfaces.
NextWireless ==
    \/ GetInterfacesBegin
    \/ GetWirelessInterfacesBegin
    \/ \E l \in Listings : GetInterfacesFail(l)
    \/ \E l \in Listings : GetWirelessInterfacesFail(l)
    \/ \E line \in LinkLines, dev \in Devices : ParseInterfaceLine(line, dev)
    \/ GetInterfacesEnd
    \/ GetWirelessInterfacesEnd

SpecWireless == Init /\ [][NextWireless]_vars

\* Enumerations over listings of the names of every kind.
NextKinds ==
    \/ GetInterfacesBegin
    \/ \E l \in Listings : GetInterfacesFail(l)
    \/ \E line \in KindLines, dev \in Devices : ParseInterfaceLine(line, dev)
    \/ GetInterfacesEnd

SpecKinds == Init /\ [][NextKinds]_vars

(***************************************************************************)
(* Properties                                                              *)
(***************************************************************************)
\* scan has returned Ok: ret.val is the returned sequence, networks the same
\* records in the order they were pushed, output the text that was parsed.
Returned == pc = "idle" /\ ret.tag = "Ok"

IsMarker(raw) == starts_with(trim(raw), "BSS ")

MarkerPositions(text) == {i \in 1..Len(text) : IsMarker(text[i])}

\* The position in the text of its k-th marker line.
NthMarker(text, k) ==
    CHOOSE i \in MarkerPositions(text) :
        Cardinality({j \in MarkerPositions(text) : j <= i}) = k

\* The lines of the k-th block: after its marker line, up to the next marker
\* line or the end of the text.
BlockLines(text, k) ==
    LET first == NthMarker(text, k) + 1
        last == IF k < Cardinality(MarkerPositions(text))
                THEN NthMarker(text, k + 1) - 1
                ELSE Len(text)
    IN  [i \in 1..(last - first + 1) |-> trim(text[first + i - 1])]

HasLine(block, prefix) == \E i \in 1..Len(block) : starts_with(block[i], prefix)

NamesSecurity(line) ==
    contains(line, "WPA") \/ contains(line, "RSN") \/ contains(line, "WEP")

WithSignal(v, s) == SelectSeq(v, LAMBDA r : r.signal_strength = s)

\* C1: the sequence a scan returns is ordered by signal_strength descending:
\* every returned record's signal is >= that of the record after it.
C1_SortedBySignalDescending ==
    Returned =>
        \A i \in 1..(Len(ret.val) - 1) :
            ret.val[i].signal_strength >= ret.val[i + 1].signal_strength

\* C1 witness: a -80 block followed in the text by a -40 block, returned
\* with the -40 record first.
C1_Witness ==
    /\ Returned
    /\ Len(networks) = 2
    /\ networks[1].signal_strength = -80 /\ networks[2].signal_strength = -40
    /\ ret.val[1].signal_strength = -40 /\ ret.val[2].signal_strength = -80

\* C2: the sort is stable: the returned records of one signal strength are
\* in the order of their blocks in the text (the records are pushed in the
\* order of the marker lines, and the sort keeps equal records in push order).
C2_StableSort ==
    Returned =>
        /\ Len(networks) = Cardinality(MarkerPositions(output))
        /\ \A k \in 1..Len(networks) :
               networks[k].bssid = marker_bssid(trim(output[NthMarker(output, k)]))
        /\ \A i \in 1..Len(ret.val) :
               LET s == ret.val[i].signal_strength
               IN  WithSignal(ret.val, s) = WithSignal(networks, s)

\* C2 witness: two different records tie, and the sort moved a third one.
C2_Witness ==
    /\ Returned
    /\ ret.val # networks
    /\ \E i \in 1..Len(ret.val) : \E j \in (i + 1)..Len(ret.val) :
           /\ ret.val[i].signal_strength = ret.val[j].signal_strength
           /\ ret.val[i].bssid # ret.val[j].bssid

\* C3: within the sequence one scan returns, no two records carry the same
\* bssid.
C3_UniqueBssid ==
    Returned =>
        \A i \in 1..Len(ret.val) : \A j \in 1..Len(ret.val) :
            i # j => ret.val[i].bssid # ret.val[j].bssid

\* C4: every block is finalized exactly once: as many records are returned
\* as the text has marker lines, and the block open at the end of the input
\* is among them.
C4_OneRecordPerBlock ==
    Returned =>
        /\ Len(ret.val) = Cardinality(MarkerPositions(output))
        /\ MarkerPositions(output) # {} =>
               LET last == NthMarker(output, Cardinality(MarkerPositions(output)))
               IN  networks[Len(networks)].bssid = marker_bssid(trim(output[last]))

\* C4 witness: a text of two blocks that ends inside the second one.
C4_Witness ==
    /\ Returned
    /\ Len(ret.val) = 2
    /\ ~IsMarker(output[Len(output)])
    /\ networks[1].bssid # networks[2].bssid

\* C8: finalization applies the defaults: no SSID: line gives "<hidden>", no
\* freq: and no DS Parameter set: line gives channel 0, no freq: line gives
\* frequency 0, no signal: line gives -100, no line naming WPA, RSN or WEP
\* gives Open; mode is "Infrastructure" and security is never Unknown.
C8_FinalizationDefaults ==
    Returned =>
        \A k \in 1..Len(networks) :
            LET block == BlockLines(output, k)
                network == networks[k]
            IN  /\ ~HasLine(block, "SSID:") => network.ssid = "<hidden>"
                /\ (~HasLine(block, "freq:") /\ ~HasLine(block, "DS Parameter set:"))
                       => network.channel = 0
                /\ ~HasLine(block, "freq:") => network.frequency = 0
                /\ ~HasLine(block, "signal:") => network.signal_strength = -100
                /\ (\A i \in 1..Len(block) : ~NamesSecurity(block[i]))
                       => network.security = "Open"
                /\ network.mode = "Infrastructure"
                /\ network.security # "Unknown"

\* C8 witness: a block of a marker line alone, finalized to the defaults,
\* beside a block that has field lines.
C8_Witness ==
    /\ Returned
    /\ Len(networks) = 2
    /\ BlockLines(output, 1) = <<>>
    /\ networks[1] = [ssid |-> "<hidden>", bssid |-> "b1", channel |-> 0,
                      frequency |-> 0, signal_strength |-> -100,
                      security |-> "Open", mode |-> "Infrastructure"]
    /\ Len(BlockLines(output, 2)) = 2
    /\ networks[2].signal_strength # -100

\* A line of an active block that the parser hands to update_security.
IsSecurityLine(line) ==
    /\ ~starts_with(line, "SSID:")
    /\ ~starts_with(line, "freq:")
    /\ ~starts_with(line, "signal:")
    /\ NamesSecurity(line)

\* The strength order Open < WEP < WPA < WPA2 < WPA2Enterprise < WPA3.
Rank(security) ==
    CASE security = "Open" -> 0
      [] security = "WEP" -> 1
      [] security = "WPA" -> 2
      [] security = "WPA2" -> 3
      [] security = "WPA2Enterprise" -> 4
      [] security = "WPA3" -> 5

\* The rank of the strongest marker a security line names.
MarkerRank(line) ==
    IF contains(line, "WPA3") THEN 5
    ELSE IF (contains(line, "RSN") \/ contains(line, "WPA2"))
            /\ (contains(line, "802.1X") \/ contains(line, "EAP")) THEN 4
    ELSE IF contains(line, "RSN") \/ contains(line, "WPA2") THEN 3
    ELSE IF contains(line, "WPA") THEN 2
    ELSE IF contains(line, "WEP") THEN 1
    ELSE 0

Max(S) == CHOOSE x \in S : \A y \in S : y <= x

LastPushed(bssid) ==
    networks[Max({k \in 1..Len(networks) : networks[k].bssid = bssid})]

\* C9: the cache holds one entry per BSSID, filed under the BSSID of its
\* record, and after a scan the entry of every BSSID of that scan is the
\* record of the last block of that BSSID in the text.
C9_CacheHoldsLastRecord ==
    /\ \A b \in DOMAIN self_networks : self_networks[b].bssid = b
    /\ Returned =>
           \A k \in 1..Len(networks) :
               /\ networks[k].bssid \in DOMAIN self_networks
               /\ self_networks[networks[k].bssid] = LastPushed(networks[k].bssid)

\* C9 witness: after a scan whose text has two different blocks for one
\* BSSID, on a cache that holds an entry from an earlier scan.
C9_Witness ==
    /\ Returned
    /\ \E b \in DOMAIN self_networks : \A k \in 1..Len(networks) : networks[k].bssid # b
    /\ \E i \in 1..Len(networks) : \E j \in (i + 1)..Len(networks) :
           networks[i].bssid = networks[j].bssid /\ networks[i] # networks[j]

\* The BSSIDs of the marker lines of a text.
MarkerBssids(text) == {marker_bssid(trim(text[i])) : i \in MarkerPositions(text)}

\* C10: the cache survives across scans: the keys are the BSSIDs of all the
\* marker lines parsed since construction or the last clear_cache (the open
\* block is cached when it is finalized); no step but clear_cache removes an
\* entry, and a scan leaves the entry of a BSSID that is not in its text as
\* it was.
C10_CacheSurvivesScans ==
    /\ [](pc = "idle" => DOMAIN self_networks = seen)
    /\ [](pc = "parsing" =>
            seen = DOMAIN self_networks
                     \cup (IF current_network = None THEN {}
                           ELSE {current_network[1].bssid}))
    /\ [][ClearCache \/
          \A b \in DOMAIN self_networks :
              /\ b \in DOMAIN self_networks'
              /\ b \notin MarkerBssids(output') => self_networks'[b] = self_networks[b]]_vars

\* C10 witness: after a scan, the cache holds an entry of a BSSID that is
\* not in that scan's text, beside an entry of one that is.
C10_Witness ==
    /\ Returned
    /\ \E b \in DOMAIN self_networks : b \notin MarkerBssids(output)
    /\ \E b \in DOMAIN self_networks : b \in MarkerBssids(output)

\* The trigger of a scan failed: it timed out, could not be spawned, or iw
\* exited with a non-zero status.
Failed(trigger) == trigger.kind \in {"Elapsed", "Io"} \/ (trigger.kind = "Output" /\ ~trigger.success)

\* C11: a scan whose trigger times out, cannot be spawned or exits non-zero
\* leaves the cache exactly as it was: no step of such a scan changes it.
C11_FailedScanLeavesCache ==
    [][(Failed(scan_result') /\ ret'.tag # "Unit")
           => self_networks' = self_networks]_vars

\* C11 witness: a scan has timed out on a scanner whose cache holds entries.
C11_Witness ==
    /\ ret.tag = "Err"
    /\ scan_result.kind = "Elapsed"
    /\ DOMAIN self_networks = {"b1", "b2"}

\* C12: the sequence a scan returns reflects only that scan's text: one
\* record per marker line, each for a BSSID of the text, whatever the cache
\* holds from earlier scans.
C12_ReturnReflectsOnlyThisScan ==
    Returned =>
        /\ Len(ret.val) = Cardinality(MarkerPositions(output))
        /\ \A i \in 1..Len(ret.val) :
               ret.val[i].bssid \in {marker_bssid(trim(output[j])) : j \in MarkerPositions(output)}

\* C12 witness: scan B returned records while the cache holds a BSSID that
\* only an earlier scan A saw.
C12_Witness ==
    /\ Returned
    /\ ret.val # <<>>
    /\ \E b \in DOMAIN self_networks :
           /\ \A j \in MarkerPositions(output) : marker_bssid(trim(output[j])) # b
           /\ \A i \in 1..Len(ret.val) : ret.val[i].bssid # b

\* C13: parsing is total: whatever the text, the parser ends with Ok; scan
\* returns Err only when the trigger failed.
C13_ParsingIsTotal ==
    /\ [][(pc = "parsing" /\ pc' = "idle") => ret'.tag = "Ok"]_vars
    /\ [](ret.tag = "Err" => Failed(scan_result))
    /\ []((pc = "idle" /\ scan_result.kind = "Output" /\ scan_result.success)
             => ret.tag \in {"Ok", "Unit"})

\* C13 witness: Ok for a text that starts with field lines outside any block
\* and has a signal value that is no integer.
C13_Witness ==
    /\ Returned
    /\ output # <<>>
    /\ ~IsMarker(output[1])
    /\ \E i \in 1..Len(output) : output[i] = DecimalSignalLine
    /\ ret.val # <<>>

\* C14: a failed trigger is surfaced as Err without the parser running, and
\* the message carries the remedy hint exactly when iw's stderr contains
\* "Operation not permitted" or "Network is down".
C14_FailureSurfacedWithHint ==
    /\ (Failed(scan_result) /\ ret.tag # "Unit") =>
           ret.tag = "Err" /\ pc = "idle" /\ output = <<>> /\ networks = <<>>
    /\ ret.tag = "Err" =>
           (contains(ret.val, RemedyHint)
               <=> /\ scan_result.kind = "Output"
                   /\ \/ contains(scan_result.stderr, "Operation not permitted")
                      \/ contains(scan_result.stderr, "Network is down"))

\* C14 witness: iw failed on a down interface and the error carries the hint.
C14_Witness ==
    /\ ret.tag = "Err"
    /\ scan_result.stderr = DownStderr
    /\ ret.val = <<"Scan failed: ", "command failed: ", "Network is down", " (-100)",
                   RemedyHint>>

\* The values of the freq: lines of a block, in order: <<>> for a value that
\* is no number.
FreqValues(block) ==
    LET at == {i \in 1..Len(block) : starts_with(block[i], "freq:")}
    IN  [i \in at |-> parse_u32(trim(Tail(block[i])))]

\* The frequencies that get no channel: all that are not table entries.
OffTableGivesNoChannel ==
    \A f \in FreqInputs : f \notin DOMAIN FreqTable => freq_to_channel(f) = None

\* C15: freq_to_channel maps 2412 to 1, 2484 to 14, 5180 to 36 and 5825 to
\* 165 and gives no channel for a frequency that is not in the table; a block
\* whose only channel information is an off-table freq: line finalizes with
\* channel 0 and the parsed frequency.
C15_FreqToChannel ==
    /\ freq_to_channel(2412) = Some(1)
    /\ freq_to_channel(2484) = Some(14)
    /\ freq_to_channel(5180) = Some(36)
    /\ freq_to_channel(5825) = Some(165)
    /\ OffTableGivesNoChannel
    /\ Returned =>
           \A k \in 1..Len(networks) :
               LET block == BlockLines(output, k)
                   freqs == FreqValues(block)
               IN  (/\ ~HasLine(block, "DS Parameter set:")
                    /\ DOMAIN freqs # {}
                    /\ \A i \in DOMAIN freqs :
                           freqs[i] # None /\ freqs[i][1] \notin DOMAIN FreqTable)
                       => /\ networks[k].channel = 0
                          /\ networks[k].frequency = freqs[Max(DOMAIN freqs)][1]

\* C15 witness: a block with the off-table frequency 2400 alone.
C15_Witness ==
    /\ Returned
    /\ Len(networks) = 1
    /\ BlockLines(output, 1) = <<trim(OffTableFreqLine)>>
    /\ networks[1].channel = 0
    /\ networks[1].frequency = 2400

\* The value of a signal: line: its first token after the colon that is not
\* whitespace, <<>> when there is none.
SignalValue(line) == split_whitespace_next(Tail(line))

\* C17: a signal: line whose value is malformed (no integer, or nothing
\* after the colon) leaves the signal unset: a block whose signal: lines are
\* all malformed finalizes with signal_strength -100.
C17_MalformedSignalStaysUnset ==
    Returned =>
        \A k \in 1..Len(networks) :
            LET block == BlockLines(output, k)
                at == {i \in 1..Len(block) : starts_with(block[i], "signal:")}
            IN  (at # {} /\ \A i \in at :
                     \/ SignalValue(block[i]) = None
                     \/ SignalValue(block[i])[1][1] \notin DOMAIN Numerals)
                    => networks[k].signal_strength = -100

\* The frequencies that get a channel.
Mapped == {f \in FreqInputs : freq_to_channel(f) # None}

\* C16: the table has exactly 14 entries in the 2.4 GHz band (2412-2484) and
\* exactly 24 in the 5 GHz band (5180-5825): 38 frequencies get a channel.
C16_TableHas38Entries ==
    call.fn = "freq_to_channel" =>
        /\ Cardinality(Mapped \cap (2412..2484)) = 14
        /\ Cardinality(Mapped \cap (5180..5825)) = 24
        /\ Cardinality(Mapped) = 38

\* C16, amended: 14 entries in the 2.4 GHz band and 25 in the 5 GHz band; 39
\* frequencies get a channel, and a call returns one exactly for those.
C16_TableHas39Entries ==
    call.fn = "freq_to_channel" =>
        /\ Cardinality(Mapped \cap (2412..2484)) = 14
        /\ Cardinality(Mapped \cap (5180..5825)) = 25
        /\ Cardinality(Mapped) = 39
        /\ call.result # None =>
               call.arg \in (2412..2484) \cup (5180..5825) /\ call.arg \in Mapped

\* C16 witness: the 25th entry of the 5 GHz band, channel 144.
C16_Witness ==
    call = [fn |-> "freq_to_channel", arg |-> 5720, result |-> Some(144)]

\* C18: signal_to_quality is min(100, max(0, 2*(dBm+100))): 100 from -50 up,
\* 0 from -100 down, 2*(dBm+100) in between; it is within 0..100, does not
\* decrease as dBm grows, and the u8 conversion loses nothing.
C18_QualityMapping ==
    call.fn = "signal_to_quality" =>
        /\ call.result = IF call.arg >= -50 THEN 100
                         ELSE IF call.arg <= -100 THEN 0
                         ELSE 2 * (call.arg + 100)
        /\ call.result \in 0..100
        /\ call.result <= signal_to_quality(call.arg + 1)
        /\ (call.arg > -100 /\ call.arg < -50) => 2 * (call.arg + 100) \in 0..255

\* C18 witness: -75 dBm gives 50.
C18_Witness == call = [fn |-> "signal_to_quality", arg |-> -75, result |-> 50]

Filled(glyph) == Cardinality({i \in 1..Len(glyph) : glyph[i] = "full"})

\* C19: signal_to_bars gives one of five glyphs by the 20-point band of the
\* quality (0-19 none, 20-39 one, 40-59 two, 60-79 three, 80-100 four filled
\* bars), so the filled bars do not decrease as dBm grows.
C19_BarsByBand ==
    call.fn = "signal_to_bars" =>
        LET quality == signal_to_quality(call.arg)
        IN  /\ call.result \in {Bars(n) : n \in 0..4}
            /\ quality \in 0..19 => Filled(call.result) = 0
            /\ quality \in 20..39 => Filled(call.result) = 1
            /\ quality \in 40..59 => Filled(call.result) = 2
            /\ quality \in 60..79 => Filled(call.result) = 3
            /\ quality \in 80..100 => Filled(call.result) = 4
            /\ Filled(call.result) <= Filled(signal_to_bars(call.arg + 1))

\* C19 witness: -60 dBm is quality 80, the first of the four-bar band.
C19_Witness == call = [fn |-> "signal_to_bars", arg |-> -60, result |-> Bars(4)]

\* The lines of the listing that parse_interface_line accepts.
Parseable(i) == Len(split_whitespace(stdout[i])) >= 2

LineName(i) == to_string(trim_end_matches(split_whitespace(stdout[i])[2], ":"))

\* C20: for every parseable line of the listing (two words or more): with
\* "state UP" in it the state is Up, with "state DOWN" Down, with neither
\* Unknown.
C20_StateFromMarker ==
    \A i \in 1..Len(stdout) :
        Parseable(i) =>
            /\ parsed[i] # None
            /\ contains_seq(stdout[i], StateUp) => parsed[i][1].state = "Up"
            /\ contains_seq(stdout[i], StateDown) => parsed[i][1].state = "Down"
            /\ (~contains_seq(stdout[i], StateUp) /\ ~contains_seq(stdout[i], StateDown))
                   => parsed[i][1].state = "Unknown"

\* C20, amended: for every parseable line whose name is not "lo": with
\* "state UP" in it the state is Up; with "state DOWN" and no "state UP"
\* Down; with neither Unknown.
C20_StateFromMarkerExceptLo ==
    \A i \in 1..Len(stdout) :
        (Parseable(i) /\ LineName(i) # "lo") =>
            /\ parsed[i] # None
            /\ contains_seq(stdout[i], StateUp) => parsed[i][1].state = "Up"
            /\ (contains_seq(stdout[i], StateDown) /\ ~contains_seq(stdout[i], StateUp))
                   => parsed[i][1].state = "Down"
            /\ (~contains_seq(stdout[i], StateUp) /\ ~contains_seq(stdout[i], StateDown))
                   => parsed[i][1].state = "Unknown"

\* C20 witness: a listing was returned whose first line is down and whose
\* second line has both markers.
C20_Witness ==
    /\ net_ret.tag = "Ok"
    /\ Len(stdout) = 2
    /\ contains_seq(stdout[1], StateDown) /\ ~contains_seq(stdout[1], StateUp)
    /\ contains_seq(stdout[2], StateDown) /\ contains_seq(stdout[2], StateUp)
    /\ Len(net_ret.val) = 2
    /\ net_ret.val[1].state = "Down"
    /\ net_ret.val[2].state = "Up"

\* C27: security inference is idempotent: for every security value and
\* every line, update_security applied twice with the same line leaves what
\* one application leaves.
C27_UpdateSecurityIdempotent ==
    (call.fn = "update_security" /\ Len(call.result) = 2)
        => call.result[2] = call.result[1]

\* C27 witness: a WPA line on an Open builder, applied twice.
C27_Witness ==
    /\ call.fn = "update_security"
    /\ call.arg = [security |-> "Open", line |-> WpaLine]
    /\ call.result = <<"WPA", "WPA">>

\* The values of the signal: lines of a block, by position: <<>> for a value
\* that is no integer.
SignalValues(block) ==
    LET at == {i \in 1..Len(block) : starts_with(block[i], "signal:")}
    IN  [i \in at |-> IF SignalValue(block[i]) = None THEN None
                      ELSE parse_i32(SignalValue(block[i])[1])]

\* The channels of the "DS Parameter set:" lines of a block, by position.
ChannelValues(block) ==
    LET at == {i \in 1..Len(block) :
                   /\ starts_with(block[i], "DS Parameter set:")
                   /\ Len(split(block[i], "channel")) >= 2}
    IN  [i \in at |-> parse_u32(trim(split(block[i], "channel")[2]))]

\* The value of the last well-formed line among vals.
LastWellFormed(vals) ==
    LET good == {i \in DOMAIN vals : vals[i] # None}
    IN  IF good = {} THEN None ELSE vals[Max(good)]

OnTable(v) == v # None /\ v[1] \in DOMAIN FreqTable
OffTable(v) == v # None /\ v[1] \notin DOMAIN FreqTable

\* C28: in a block with a freq: line of an on-table frequency and a
\* "DS Parameter set:" line of a parseable channel c, the finalized channel
\* is c.
C28_ExplicitChannelOverrides ==
    Returned =>
        \A k \in 1..Len(networks) :
            LET block == BlockLines(output, k)
                freqs == FreqValues(block)
                chans == ChannelValues(block)
            IN  (/\ \E i \in DOMAIN freqs : OnTable(freqs[i])
                 /\ LastWellFormed(chans) # None)
                    => networks[k].channel = LastWellFormed(chans)[1]

\* C29: an off-table freq: line contributes no channel: in a block with a
\* "DS Parameter set:" line of channel c and freq: lines that are all
\* off-table, the finalized channel is c in either order of the lines.
C29_OffTableFreqKeepsChannel ==
    Returned =>
        \A k \in 1..Len(networks) :
            LET block == BlockLines(output, k)
                freqs == FreqValues(block)
                chans == ChannelValues(block)
            IN  (/\ DOMAIN freqs # {}
                 /\ \A i \in DOMAIN freqs : OffTable(freqs[i])
                 /\ LastWellFormed(chans) # None)
                    => networks[k].channel = LastWellFormed(chans)[1]

\* C30: a malformed signal:, freq: or "DS Parameter set:" line leaves the
\* value an earlier well-formed line of the block has set: the block
\* finalizes with the value of its last well-formed line of that kind (for
\* the channel: in a block without freq: lines).
C30_MalformedLineHasNoEffect ==
    Returned =>
        \A k \in 1..Len(networks) :
            LET block == BlockLines(output, k)
                signals == SignalValues(block)
                freqs == FreqValues(block)
                chans == ChannelValues(block)
            IN  /\ LastWellFormed(signals) # None
                       => networks[k].signal_strength = LastWellFormed(signals)[1]
                /\ LastWellFormed(freqs) # None
                       => networks[k].frequency = LastWellFormed(freqs)[1]
                /\ (LastWellFormed(chans) # None /\ DOMAIN freqs = {})
                       => networks[k].channel = LastWellFormed(chans)[1]

\* The record of the loopback.
LoopbackRecord ==
    [name |-> "lo", mac_address |-> None, ip_address |-> None, state |-> "Up",
     interface_type |-> "Loopback", driver |-> None]

\* C21: a line whose name is "lo" yields state Up and kind Loopback with no
\* MAC, IP or driver, whatever state marker it contains, and no lookup is
\* made for it.
C21_LoopbackShortCircuit ==
    \A i \in 1..Len(stdout) :
        (Parseable(i) /\ LineName(i) = "lo")
            => parsed[i] = Some(LoopbackRecord) /\ lookups[i] = <<>>

\* C21 witness: a loopback line marked "state DOWN" was returned as Up, after
\* a line for which the lookups were made.
C21_Witness ==
    /\ net_ret.tag = "Ok"
    /\ Len(stdout) = 2
    /\ Parseable(1) /\ LineName(1) # "lo" /\ Len(lookups[1]) = 4
    /\ Parseable(2) /\ LineName(2) = "lo" /\ contains_seq(stdout[2], StateDown)
    /\ net_ret.val[2] = LoopbackRecord

\* The name of a line, as tokens.
LineNameTokens(i) == trim_end_matches(split_whitespace(stdout[i])[2], ":")

StartsWithAny(name, prefixes) == \E p \in prefixes : name_starts_with(name, p)

\* C22: for a name that is not "lo" the kind is the first match of: the
\* wireless marker exists -> Wireless (whatever the name); the name starts
\* with wl, wlan or wifi -> Wireless; with eth or en -> Ethernet; with veth,
\* docker or br- -> Virtual; else Unknown.  Matching is case-sensitive.
C22_KindByFirstMatch ==
    \A i \in 1..Len(stdout) :
        (Parseable(i) /\ LineName(i) # "lo") =>
            LET name == LineNameTokens(i)
                marker == lookups[i][1].out
                kind == parsed[i][1].interface_type
            IN  /\ marker => kind = "Wireless"
                /\ (~marker /\ StartsWithAny(name, {"wl", "wlan", "wifi"}))
                       => kind = "Wireless"
                /\ (/\ ~marker
                    /\ ~StartsWithAny(name, {"wl", "wlan", "wifi"})
                    /\ StartsWithAny(name, {"eth", "en"}))
                       => kind = "Ethernet"
                /\ (/\ ~marker
                    /\ ~StartsWithAny(name, {"wl", "wlan", "wifi", "eth", "en"})
                    /\ StartsWithAny(name, {"veth", "docker", "br-"}))
                       => kind = "Virtual"
                /\ (/\ ~marker
                    /\ ~StartsWithAny(name, {"wl", "wlan", "wifi", "eth", "en",
                                             "veth", "docker", "br-"}))
                       => kind = "Unknown"
                /\ (~marker /\ LineName(i) = "Wlan0") => kind = "Unknown"

\* C22 witness: eth0 with the wireless marker is Wireless, veth1 without it
\* is Virtual.
C22_Witness ==
    /\ net_ret.tag = "Ok"
    /\ Len(net_ret.val) = 2
    /\ net_ret.val[1].name = "eth0" /\ lookups[1][1].out
    /\ net_ret.val[1].interface_type = "Wireless"
    /\ net_ret.val[2].name = "veth1" /\ ~lookups[2][1].out
    /\ net_ret.val[2].interface_type = "Virtual"

\* The outcome of the lookup fn made for line i.
LookupOut(i, fn) ==
    LET k == CHOOSE k \in 1..Len(lookups[i]) : lookups[i][k].fn = fn
    IN  lookups[i][k].out

\* C25: get_interfaces fails only when the listing could not be obtained
\* (not spawned, or non-zero exit); with the listing obtained it returns Ok,
\* every parseable line has its record, and a failed MAC, IP or driver
\* lookup is recorded as None in that field.
C25_OnlyListingFails ==
    /\ net_ret.tag = "Err" => ~listing_ok(listing)
    /\ (net_pc = "idle" /\ listing_ok(listing)) =>
           /\ net_ret.tag = "Ok"
           /\ Len(net_ret.val) = Cardinality({i \in 1..Len(stdout) : Parseable(i)})
    /\ \A i \in 1..Len(stdout) :
           Parseable(i) =>
               /\ parsed[i] # None
               /\ LineName(i) # "lo" =>
                      /\ LookupOut(i, "get_mac_address") = None
                             => parsed[i][1].mac_address = None
                      /\ LookupOut(i, "get_ip_address") = None
                             => parsed[i][1].ip_address = None
                      /\ LookupOut(i, "get_driver") = None
                             => parsed[i][1].driver = None

\* C25 witness: Ok with the record of a device all of whose lookups failed.
C25_Witness ==
    /\ net_pc = "idle"
    /\ net_ret.tag = "Ok"
    /\ Len(stdout) = 1
    /\ Len(lookups[1]) = 4
    /\ LookupOut(1, "get_mac_address") = None
    /\ LookupOut(1, "get_ip_address") = None
    /\ LookupOut(1, "get_driver") = None
    /\ Len(net_ret.val) = 1
    /\ net_ret.val[1].mac_address = None
    /\ net_ret.val[1].ip_address = None
    /\ net_ret.val[1].driver = None

\* The position of the first line of an address listing with "inet " in it,
\* 0 when there is none.
FirstInet(text) ==
    LET at == {j \in 1..Len(text) : contains_seq(text[j], Inet)}
    IN  IF at = {} THEN 0 ELSE CHOOSE j \in at : \A k \in at : j <= k

\* C26: ip_address comes only from the first line of the address listing
\* with "inet " in it: its second word up to the first '/'; it is absent if
\* that line has no second word; later inet lines are never used.
C26_FirstInetLineOnly ==
    \A i \in 1..Len(stdout) :
        (Parseable(i) /\ LineName(i) # "lo" /\ LookupOut(i, "get_ip_address") # None) =>
            LET text == LookupOut(i, "get_ip_address")[1]
                first == FirstInet(text)
                words == split_whitespace(text[first])
            IN  parsed[i][1].ip_address =
                    IF first = 0 \/ Len(words) < 2 THEN None
                    ELSE Some(to_string(split(words[2], "/")[1]))

\* C23: for every device-info text the mode follows keyword precedence
\* over the text: Monitor if it contains "monitor"; else Managed if
\* "managed"; else Master if "AP" or "master"; else Adhoc if "IBSS" or
\* "ad-hoc"; else Unknown.
C23_ModeByTextPrecedence ==
    (call.fn = "get_wireless_mode" /\ call.arg.kind = "Output") =>
        LET text == call.arg.stdout
        IN  call.result =
                [tag |-> "Ok",
                 val |-> IF text_contains(text, "monitor") THEN "Monitor"
                         ELSE IF text_contains(text, "managed") THEN "Managed"
                         ELSE IF text_contains(text, "AP") \/ text_contains(text, "master")
                              THEN "Master"
                         ELSE IF text_contains(text, "IBSS") \/ text_contains(text, "ad-hoc")
                              THEN "Adhoc"
                         ELSE "Unknown"]

ModeKeywords == {"monitor", "managed", "AP", "master", "IBSS", "ad-hoc"}

\* The lines that decide the mode: with "type" and a keyword in them.
Deciding(text) ==
    {j \in 1..Len(text) :
         contains(text[j], "type") /\ \E k \in ModeKeywords : contains(text[j], k)}

\* C23, amended: the mode is decided by the first line of the text that
\* contains "type" and a keyword, by keyword precedence within that line;
\* it is Unknown if there is no such line.
C23_ModeByFirstTypeLine ==
    (call.fn = "get_wireless_mode" /\ call.arg.kind = "Output") =>
        LET text == call.arg.stdout
            first == CHOOSE j \in Deciding(text) : \A k \in Deciding(text) : j <= k
        IN  call.result =
                [tag |-> "Ok",
                 val |-> IF Deciding(text) = {} THEN "Unknown"
                         ELSE IF contains(text[first], "monitor") THEN "Monitor"
                         ELSE IF contains(text[first], "managed") THEN "Managed"
                         ELSE IF \/ contains(text[first], "AP")
                                 \/ contains(text[first], "master") THEN "Master"
                         ELSE "Adhoc"]

\* C23 witness: an IBSS interface whose ssid line has "AP" in it.
C23_Witness ==
    /\ call.fn = "get_wireless_mode"
    /\ call.arg = [kind |-> "Output", stdout |-> <<SsidApLine, TypeLine("IBSS")>>]
    /\ call.result = [tag |-> "Ok", val |-> "Adhoc"]

\* C24: get_wireless_mode never fails: whatever way the device-info command
\* ends, it yields a mode, Unknown when the command could not be run.
C24_ModeNeverFails ==
    call.fn = "get_wireless_mode" =>
        /\ call.result.tag = "Ok"
        /\ call.arg.kind = "Io" => call.result.val = "Unknown"

\* A step of the loop that hands a line to the active builder.
FieldStep ==
    /\ pc = "parsing" /\ pc' = "parsing"
    /\ Len(output') = Len(output) + 1
    /\ current_network # None
    /\ ~IsMarker(output'[Len(output')])

\* The fields of builder b2 that differ from those of builder b.
Changed(b, b2) == {f \in DOMAIN b : b[f] # b2[f]}

\* C31: a line inside an active block matches at most one category, tested
\* in the order SSID:, freq:, signal:, security (WPA/RSN/WEP in it),
\* DS Parameter set: each line changes the fields of one category only; a
\* line starting with SSID:, freq: or signal: never changes the security,
\* and a security line never changes ssid, frequency, channel or signal.
C31_OneCategoryPerLine ==
    [][FieldStep =>
          LET line == trim(output'[Len(output')])
              changed == Changed(current_network[1], current_network'[1])
          IN  IF starts_with(line, "SSID:") THEN changed \subseteq {"ssid"}
              ELSE IF starts_with(line, "freq:") THEN changed \subseteq {"frequency", "channel"}
              ELSE IF starts_with(line, "signal:") THEN changed \subseteq {"signal_strength"}
              ELSE IF NamesSecurity(line) THEN changed \subseteq {"security"}
              ELSE IF starts_with(line, "DS Parameter set:") THEN changed \subseteq {"channel"}
              ELSE changed = {}]_vars

\* C31 witness: a network named "WPA2" is Open, and a channel line with
\* "WEP" in it has set the security and not the channel.
C31_Witness ==
    /\ Returned
    /\ output = <<BssLine("b1"), SsidWpaLine, ChannelWepLine>>
    /\ networks[1].ssid = "WPA2"
    /\ networks[1].security = "WEP"
    /\ networks[1].channel = 0

\* The record of a block, from its marker line and its own lines alone.
RECURSIVE BlockBuilder(_, _)
BlockBuilder(marker, block) ==
    IF block = <<>> THEN WifiNetworkBuilder_new(marker_bssid(trim(marker)))
    ELSE update_builder(BlockBuilder(marker, SubSeq(block, 1, Len(block) - 1)),
                        block[Len(block)])

\* C32: blocks are isolated: each returned record is determined by the
\* lines from its own marker line to the next marker line or the end of the
\* text; the lines before the first marker give no record and change
\* nothing; no field value is carried over from one block to the next.
C32_BlocksAreIsolated ==
    /\ Returned =>
           /\ Len(networks) = Cardinality(MarkerPositions(output))
           /\ \A k \in 1..Len(networks) :
                  networks[k] =
                      build(BlockBuilder(output[NthMarker(output, k)],
                                         BlockLines(output, k)))[1]
    /\ (pc = "parsing" /\ MarkerPositions(output) = {}) =>
           /\ current_network = None
           /\ networks = <<>>
           /\ DOMAIN self_networks = {}

\* C32 witness: a field line before the first marker, a block with a signal
\* and a second block without one.
C32_Witness ==
    /\ Returned
    /\ output = <<SsidLine, BssLine("b1"), SignalLine("-40"), BssLine("b2")>>
    /\ Len(networks) = 2
    /\ networks[1].signal_strength = -40 /\ networks[1].ssid = "<hidden>"
    /\ networks[2].signal_strength = -100

\* The records among parsed, in order.
RECURSIVE Records(_)
Records(results) ==
    IF results = <<>> THEN <<>>
    ELSE IF Head(results) = None THEN Records(Tail(results))
    ELSE <<Head(results)[1]>> \o Records(Tail(results))

\* C33: enumeration yields one record per parseable line and nothing else:
\* a line of fewer than two words yields none and does not end the
\* enumeration; the records are returned in the order of their lines;
\* get_wireless_interfaces returns the Wireless ones among them, in order.
C33_OneRecordPerParseableLine ==
    /\ \A i \in 1..Len(stdout) : parsed[i] # None <=> Parseable(i)
    /\ interfaces = Records(parsed)
    /\ (net_pc = "idle" /\ listing_ok(listing)) =>
           /\ net_ret.tag = "Ok"
           /\ net_fn = "get_interfaces" => net_ret.val = Records(parsed)
           /\ net_fn = "get_wireless_interfaces" =>
                  net_ret.val = SelectSeq(Records(parsed),
                                          LAMBDA r : r.interface_type = "Wireless")

\* C33 witness: get_wireless_interfaces on a listing of a one-word line and
\* an ethernet device after it: the device is enumerated, none is wireless.
C33_Witness ==
    /\ net_fn = "get_wireless_interfaces"
    /\ net_pc = "idle"
    /\ net_ret = [tag |-> "Ok", val |-> <<>>]
    /\ Len(stdout) = 2
    /\ ~Parseable(1)
    /\ Parseable(2)
    /\ Len(interfaces) = 1
    /\ interfaces[1].interface_type = "Ethernet"

\* A command ended with exit status zero.
Succeeded(c) == c.kind = "Output" /\ c.success

\* C38: each of the four operations issues link-down, change, link-up in
\* that order; link-up is issued if and only if the change command exited
\* successfully; a failed change gives Err with the link taken down and not
\* brought up; the exit status of link-down and link-up never affects the
\* result.
C38_DownChangeUp ==
    (call.fn \in LinkOps) =>
        LET a == call.arg
            r == call.result
            iface == "wlan0"
            arg == IF a.op = "rename_interface" THEN "mon0" ELSE "02:00:00:00:00:01"
            all == <<link_down_cmd(iface), change_cmd(a.op, iface, arg),
                     link_up_cmd(a.op, iface, arg)>>
        IN  /\ r.issued = SubSeq(all, 1, Len(r.issued))
            /\ Len(r.issued) >= 1
            /\ Len(r.issued) = 3 <=> (a.down.kind # "Io" /\ Succeeded(a.change))
            /\ (a.down.kind # "Io" /\ a.change = [kind |-> "Output", success |-> FALSE])
                   => r.tag = "Err" /\ Len(r.issued) = 2
            /\ \A d, u \in BOOLEAN :
                   LET other == link_op(a.op, iface, arg,
                                        [a.down EXCEPT !.success = d /\ a.down.kind = "Output"],
                                        a.change,
                                        [a.up EXCEPT !.success = u /\ a.up.kind = "Output"])
                   IN  other.tag = r.tag /\ other.issued = r.issued

\* C38 witness: a rename whose change command failed after a link-down
\* that exited non-zero.
C38_Witness ==
    /\ call.fn = "rename_interface"
    /\ call.arg.down = [kind |-> "Output", success |-> FALSE]
    /\ call.arg.change = [kind |-> "Output", success |-> FALSE]
    /\ call.result.issued = <<<<"ip", "link", "set", "wlan0", "down">>,
                              <<"ip", "link", "set", "wlan0", "name", "mon0">>>>
    /\ call.result.tag = "Err"

ScanReturned(tag) == run_pc = "scan" /\ pc = "idle" /\ ret.tag = tag

\* C39: run never returns; every iteration whose scan has returned ends in
\* exactly one callback (scan Ok, with the scan's result) or one printed
\* error (scan Err), and both lead to the sleep and, from there, to the next
\* scan; a scan starts only when no other is in progress; the cache of the
\* one scanner keeps the BSSIDs of all iterations.
C39_RunNeverReturns ==
    /\ [](run_pc \in {"none", "scan", "sleep"})
    /\ [](callbacks.count + reported.count
              = iterations + (IF run_pc = "sleep" THEN 1 ELSE 0))
    /\ []((run_pc = "sleep" /\ iterations + 1 < MaxScans) => ENABLED RunSleep)
    /\ []((run_pc # "none" /\ pc = "idle") => DOMAIN self_networks = seen)
    /\ [][/\ ScanReturned("Ok") =>
               /\ callbacks' = [count |-> callbacks.count + 1, last |-> ret.val]
               /\ reported' = reported
               /\ run_pc' = "sleep"
          /\ ScanReturned("Err") =>
               /\ callbacks' = callbacks
               /\ reported'.count = reported.count + 1
               /\ run_pc' = "sleep"
          /\ ~(ScanReturned("Ok") \/ ScanReturned("Err")) =>
               callbacks' = callbacks /\ reported' = reported
          /\ (run_pc # "none" /\ scan_result' # scan_result) =>
               (pc = "idle" /\ ret.tag = "Pending")
          /\ run_pc = "sleep" => (run_pc' = "scan" /\ ret'.tag = "Pending")]_vars

\* C39 witness: the first scan failed, the second was made and succeeded,
\* and the callback was called once, with the network of the second.
C39_Witness ==
    /\ run_pc = "sleep"
    /\ iterations = 1
    /\ reported.count = 1
    /\ callbacks.count = 1
    /\ ret.tag = "Ok"
    /\ callbacks.last = ret.val
    /\ Len(callbacks.last) = 1

\* C34: whenever the interface selection is Some(i), i < interfaces.len().
C34_InterfaceSelectionInBounds ==
    app.interface_state # None => app.interface_state[1] < Len(app.interfaces)

\* C35: whenever the network selection is Some(i), i < networks.len().
C35_NetworkSelectionInBounds ==
    app.network_state # None => app.network_state[1] < Len(app.networks)

\* The key handler of this step invoked rename_interface.
Renaming == handled'.op # <<>> /\ handled'.op[1] = "rename_interface"

\* C36: input_mode is Normal or Rename; Rename is entered only from Normal,
\* by 'R', with selected_interface() Some; Enter and Esc in Rename lead to
\* Normal with the buffer cleared, and the buffer is empty whenever the mode
\* is Normal; rename_interface is invoked only by Enter in Rename, from the
\* selected interface's name to the buffer, which is non-empty and differs
\* from that name.
C36_InputModeMachine ==
    /\ [](app.input_mode \in {"Normal", "Rename"})
    /\ [](app.input_mode = "Normal" => app.input_buffer = "")
    /\ [][/\ (app'.input_mode = "Rename" /\ app.input_mode # "Rename") =>
               /\ app.input_mode = "Normal"
               /\ handled'.key = "R"
               /\ selected_interface(app) # None
               /\ app'.input_buffer = selected_interface(app)[1].name
          /\ (app.input_mode = "Rename" /\ handled'.key \in {"Enter", "Esc"}) =>
               (app'.input_mode = "Normal" /\ app'.input_buffer = "")
          /\ (app.input_mode = "Rename" /\ handled'.key \notin {"Enter", "Esc"}) =>
               app'.input_mode = "Rename"
          /\ Renaming =>
               /\ handled'.key = "Enter"
               /\ app.input_mode = "Rename"
               /\ selected_interface(app) # None
               /\ handled'.op = <<"rename_interface", selected_interface(app)[1].name,
                                  app.input_buffer>>
               /\ app.input_buffer # ""
               /\ app.input_buffer # selected_interface(app)[1].name]_vars

\* C36 witness: Enter has renamed wl0 to the edited name wl00 and the
\* mode is Normal again, with the buffer empty.
C36_Witness ==
    /\ handled.key = "Enter"
    /\ handled.op = <<"rename_interface", "wl0", "wl00">>
    /\ app.input_mode = "Normal"
    /\ app.input_buffer = ""

\* str::starts_with on a String
begins_with(text, prefix) ==
    Len(text) >= Len(prefix) /\ SubSeq(text, 1, Len(prefix)) = prefix

\* C37: a key handler (or App::new) whose refresh failed leaves the
\* interface list as it was and a status message that begins with "Error".
C37_RefreshErrorReported ==
    [][handled'.refresh = "Err" =>
           /\ app'.interfaces = app.interfaces
           /\ begins_with(app'.status_message, "Error")]_vars

====
